---- MODULE Spec2Model ----
(***************************************************************************)
(* Model of the ds-api client (lib/synology-ds.ts, lib/tasks.ts,           *)
(* lib/retry.ts, lib/api.ts, lib/auth.ts): session management, the task    *)
(* cache, the purge orchestration and the path validation guard.           *)
(*                                                                         *)
(* Execution model: one JavaScript event loop.  The code between two       *)
(* awaits runs atomically, so every action below is one such stretch:      *)
(* a call up to its first suspension, or the continuation that runs when   *)
(* one HTTP response / filesystem result arrives.                          *)
(***************************************************************************)
EXTENDS Integers, Sequences, FiniteSets, TLC

\* ------------------------------------------------------------------ bounds
RetryAttempts == 1      \* config.retryAttempts (>= 1, see RetryAttemptsOf)
MaxSessions == 2        \* session ids the remote side hands out in one behaviour

MaxPathLen == 6         \* longest path string handed to the path guard

\* The concurrent callers sharing the client.  A promise is kept while a caller
\* still holds it, so there are never more promises than callers.
Callers == {1, 2}
Slots == Callers

VARIABLES
  apiInfo,              \* this.apiInfo !== null
  sid,                  \* this.sid (0 models null)
  tasksMap,             \* this.tasksMap: id -> Task
  authenticatePromise,  \* this.#authenticatePromise (0 models null)
  getTasksPromise,      \* this.#getTasksPromise (0 models null)
  fl,                   \* the promises created by the two IIFEs that are still held
  cs,                   \* per caller: the call it is running
  nextSid,              \* the remote side: next session id it hands out
  path,                 \* this.path
  basePath,             \* this.basePath
  pg,                   \* per caller: the locals of its purgeTasksBySize() call
  fsys,                 \* the last direct deleteFromSystem() / validatePath() call
  rt,                   \* the locals of a retry() call on an operation of its own
  sel,                  \* a direct call of a lib/tasks.ts function: its argument and result
  rm,                   \* the locals of a direct removeTasksByIds() call
  cli                   \* the locals of the CLIHandler.executeCommand() call

vars == <<apiInfo, sid, tasksMap, authenticatePromise, getTasksPromise, fl, cs, nextSid,
          path, basePath, cli, pg, fsys, rt, sel, rm>>

\* What the session and task-list operations never touch.
env == <<path, basePath, cli, pg, fsys, rt, sel, rm>>

\* ------------------------------------------------------------------ tasks
\* A Task snapshot as returned by the list call (types/api.ts): the fields the
\* core reads.  destination is a path string (a sequence of characters);
\* NoDestination models an absent additional.detail.destination.
NoDestination == <<"undefined">>

Task(id, title, size, uploaded, completed, destination) ==
  [id |-> id, title |-> title, size |-> size, size_uploaded |-> uploaded,
   completed_time |-> completed, destination |-> destination]

\* The task lists the remote side may answer a list call with (sizes in
\* units of SizeUnit bytes).  The destinations are two directories below the
\* root, the empty string and the parent directory.
T1 == Task("t1", <<"x">>, 1000, 0, 5, <<"a">>)
T2 == Task("t2", <<"y">>, 2000, 0, 3, <<>>)
T3 == Task("t3", <<"z">>, 3000, 7, 1, <<"b">>)
T5 == Task("t5", <<"w">>, 500, 0, 4, <<".", ".">>)
RemoteLists == { <<>>, <<T3, T2, T5, T1>> }
AllIds == {"t1", "t2", "t3", "t5"}

\* The configured root of the purge scenarios (this.path = this.basePath).
Root == <<"/", "r">>

\* ------------------------------------------------------------------ paths
\* A path string is a sequence of one-character strings.
Slash == "/"
Dot == "."

startsWith(s, prefix) ==
  Len(prefix) <= Len(s) /\ SubSeq(s, 1, Len(prefix)) = prefix

includes(s, sub) ==
  \E i \in 0..(Len(s) - Len(sub)) : SubSeq(s, i + 1, i + Len(sub)) = sub

\* s.split("/"): the segments between the separators (empty ones included).
RECURSIVE Split(_)
Split(s) ==
  IF \A i \in DOMAIN s : s[i] # Slash THEN <<s>>
  ELSE LET k == CHOOSE i \in DOMAIN s : s[i] = Slash /\ \A j \in 1..(i - 1) : s[j] # Slash
       IN <<SubSeq(s, 1, k - 1)>> \o Split(SubSeq(s, k + 1, Len(s)))

\* segments.join("/")
RECURSIVE JoinWith(_)
JoinWith(segs) ==
  IF Len(segs) = 0 THEN <<>>
  ELSE IF Len(segs) = 1 THEN segs[1]
  ELSE segs[1] \o <<Slash>> \o JoinWith(Tail(segs))

\* std/path normalizeString: drops empty and "." segments, resolves ".."
\* against the segment before it; above the start of a relative path a ".."
\* is kept, above the root of an absolute path it is dropped.
RECURSIVE NormalizeSegments(_, _, _)
NormalizeSegments(segs, res, allowAboveRoot) ==
  IF Len(segs) = 0 THEN res
  ELSE LET seg == Head(segs)
           rest == Tail(segs)
       IN IF seg = <<>> \/ seg = <<Dot>>
            THEN NormalizeSegments(rest, res, allowAboveRoot)
          ELSE IF seg = <<Dot, Dot>>
            THEN IF Len(res) > 0 /\ res[Len(res)] # <<Dot, Dot>>
                   THEN NormalizeSegments(rest, SubSeq(res, 1, Len(res) - 1), allowAboveRoot)
                 ELSE IF allowAboveRoot
                   THEN NormalizeSegments(rest, Append(res, seg), allowAboveRoot)
                 ELSE NormalizeSegments(rest, res, allowAboveRoot)
          ELSE NormalizeSegments(rest, Append(res, seg), allowAboveRoot)

\* std/path (posix) normalize.
normalize(p) ==
  IF Len(p) = 0 THEN <<Dot>>
  ELSE LET isAbsolute == p[1] = Slash
           trailingSeparator == p[Len(p)] = Slash
           body == JoinWith(NormalizeSegments(Split(p), <<>>, ~isAbsolute))
           body1 == IF Len(body) = 0 /\ ~isAbsolute THEN <<Dot>> ELSE body
           body2 == IF Len(body1) > 0 /\ trailingSeparator THEN Append(body1, Slash) ELSE body1
       IN IF isAbsolute THEN <<Slash>> \o body2 ELSE body2

\* std/path join(...paths): the non-empty arguments joined by "/", normalized.
join(parts) ==
  LET nonEmpty == SelectSeq(parts, LAMBDA x : Len(x) > 0)
  IN IF Len(nonEmpty) = 0 THEN <<Dot>> ELSE normalize(JoinWith(nonEmpty))

\* validatePath(fullPath) on a client whose basePath is base: Accepted, or the
\* error it throws.  (validatePath_noAbsoluteRule: the same without its last rule.)
Accepted == "ok"
BasePathNotConfigured == "Base path is not configured"
NotUnderBase == "Path validation failed: path does not start with expected base directory"
ContainsDotDot == "Path validation failed: path contains '..' which is not allowed"
NotAbsolute == "Path validation failed: path is not an absolute path"

validatePath_noAbsoluteRule(base, fullPath) ==
  IF base = <<>> THEN BasePathNotConfigured
  ELSE IF ~startsWith(join(<<fullPath>>), join(<<base>>)) THEN NotUnderBase
  ELSE IF includes(fullPath, <<Dot, Dot>>) THEN ContainsDotDot
  ELSE Accepted
validatePath(base, fullPath) ==
  IF base = <<>> THEN BasePathNotConfigured
  ELSE IF ~startsWith(join(<<fullPath>>), join(<<base>>)) THEN NotUnderBase
  ELSE IF includes(fullPath, <<Dot, Dot>>) THEN ContainsDotDot
  ELSE IF ~startsWith(base, <<Slash>>) /\ ~startsWith(fullPath, <<Slash>>) THEN NotAbsolute
  ELSE Accepted

\* ------------------------------------------------------------------ retry
\* Errors a remote call can throw (lib/api.ts): an aborted request and a body
\* that is not JSON.
RequestTimeout == "Request timeout"
NonJsonResponse == "Server returned non-JSON response"
NetErrors == {RequestTimeout, NonJsonResponse}
AuthFailed == "Authentication failed: invalid credentials or server error"
NotAuthenticated == "Not authenticated. Call authenticate() first."
ListFailed == "Failed to retrieve tasks from server"
DiscoveryFailed == "Failed to retrieve API information from server"

\* retry.ts isTransientError: the message mentions "timeout" or "network".
isTransientError(e) == e \in {RequestTimeout}

\* The shouldRetry predicate authenticate() passes to retry().
authShouldRetry(e) == e # AuthFailed

\* retry.ts: the catch block of attempt number `attempt`.
CatchBlock(attempts, attempt, retryable) ==
  IF attempt < attempts /\ retryable THEN "retry" ELSE "throw"
RetryCatch(attempt, retryable) == CatchBlock(RetryAttempts, attempt, retryable)

\* The retry() wrapper around each remote operation, outside the one in api():
\* login, list and delete are wrapped by the client; discovery and logout are not.
OuterRetryable(kind, e) ==
  CASE kind = "login" -> authShouldRetry(e)
    [] kind \in {"list", "delete"} -> isTransientError(e)
    [] OTHER -> FALSE

\* What a remote operation in state o (fields outer, inner: the attempt
\* numbers of the two nested retry loops) does when its HTTP request throws e.
OnNetError(kind, o, e) ==
  IF RetryCatch(o.inner, isTransientError(e)) = "retry"
    THEN [act |-> "retry", outer |-> o.outer, inner |-> o.inner + 1]
  ELSE IF RetryCatch(o.outer, OuterRetryable(kind, e)) = "retry"
    THEN [act |-> "retry", outer |-> o.outer + 1, inner |-> 0]
  ELSE [act |-> "throw", outer |-> 0, inner |-> 0]

\* ------------------------------------------------------------------ state
Idle == {"idle", "resolved", "rejected"}

NoError == "none"

IdleCaller ==
  [op |-> "none", pc |-> "idle", f |-> 0, val |-> 0, tasks |-> <<>>, err |-> NoError,
   inner |-> 0]

NewFlight(kind, stage) ==
  [kind |-> kind, st |-> "pending", stage |-> stage, outer |-> 0, inner |-> 0,
   reqs |-> 0, val |-> 0, tasks |-> <<>>, err |-> NoError]

FreeFlight == [NewFlight("none", "none") EXCEPT !.st = "free"]

\* A promise no caller holds any more is dropped (cs1: the callers after the step).
Collect(fl1, cs1) ==
  [f \in Slots |-> IF \E c \in Callers : cs1[c].f = f THEN fl1[f] ELSE FreeFlight]

\* The slot for a promise created by caller c: the least one that is free once c
\* has let go of the promise it held.
NewSlot(c) ==
  LET free == {f \in Slots : \A d \in Callers \ {c} : cs[d].f # f}
  IN CHOOSE f \in free : \A g \in free : f <= g

Fulfilled(f, val, tasks) ==
  [f EXCEPT !.st = "fulfilled", !.val = val, !.tasks = tasks, !.outer = 0, !.inner = 0]

Rejected(f, err) ==
  [f EXCEPT !.st = "rejected", !.err = err, !.outer = 0, !.inner = 0]

NoPurge == [stage |-> "none"]
NoFsCall == [entries |-> <<>>, validated |-> <<>>, verdict |-> "none"]
NoRetryCall == [st |-> "none"]
NoSelectCall == [fn |-> "none"]
NoRemoveCall == [st |-> "none"]
NoCommand == [pc |-> "idle"]

Init ==
  /\ path = Root
  /\ basePath = Root
  /\ pg = [c \in Callers |-> NoPurge]
  /\ fsys = NoFsCall
  /\ rt = NoRetryCall
  /\ sel = NoSelectCall
  /\ rm = NoRemoveCall
  /\ cli = NoCommand
  /\ apiInfo = FALSE
  /\ sid = 0
  /\ tasksMap = <<>>
  /\ authenticatePromise = 0
  /\ getTasksPromise = 0
  /\ fl = [f \in Slots |-> FreeFlight]
  /\ cs = [c \in Callers |-> IdleCaller]
  /\ nextSid = 1

\* new Map(tasks.map((task) => [task.id, task])): a later entry with the same id wins.
\* (TasksMapOf_accumulating: the entries set into the existing map instead.)
TasksMapOf_accumulating(tasks) ==
  [i \in DOMAIN tasksMap \cup {tasks[k].id : k \in DOMAIN tasks} |->
     IF \E k \in DOMAIN tasks : tasks[k].id = i
       THEN tasks[CHOOSE k \in DOMAIN tasks :
                    /\ tasks[k].id = i
                    /\ \A j \in DOMAIN tasks : tasks[j].id = i => j <= k]
       ELSE tasksMap[i]]
TasksMapOf(tasks) ==
  [i \in {tasks[k].id : k \in DOMAIN tasks} |->
     tasks[CHOOSE k \in DOMAIN tasks :
             /\ tasks[k].id = i
             /\ \A j \in DOMAIN tasks : tasks[j].id = i => j <= k]]

\* ---------------------------------------------------------- authenticate()
\* The guard at the top of authenticate(): an attempt is already in flight.
AuthInFlight_never == FALSE
AuthInFlight == authenticatePromise # 0

\* authenticate(), up to its first suspension.  Either the caller is handed the
\* in-flight promise, or the IIFE starts (with capability discovery when
\* apiInfo is missing, else with the login), its promise becomes the marker
\* and the caller awaits it.
\* The first request of a new authenticate() attempt: discovery when the
\* capabilities are missing (if (!this.apiInfo) await this.initialize()), else
\* the login.
\* (FirstStage_login: the login sent without looking at this.apiInfo.)
FirstStage_login(info) == "login"
FirstStage(info) == IF info THEN "login" ELSE "query"

CallAuthenticate(c) ==
  /\ cs[c].pc \in Idle
  /\ IF AuthInFlight
       THEN /\ cs' = [cs EXCEPT ![c] = [IdleCaller EXCEPT !.op = "authenticate",
                                         !.pc = "await", !.f = authenticatePromise]]
            /\ fl' = Collect(fl, cs')
            /\ UNCHANGED authenticatePromise
       ELSE LET f == NewSlot(c) IN
            /\ cs' = [cs EXCEPT ![c] = [IdleCaller EXCEPT !.op = "authenticate",
                                         !.pc = "await", !.f = f]]
            /\ fl' = Collect([fl EXCEPT ![f] = NewFlight("auth", FirstStage(apiInfo))], cs')
            /\ authenticatePromise' = f
  /\ UNCHANGED <<apiInfo, sid, tasksMap, getTasksPromise, nextSid>>
  /\ UNCHANGED env

\* The finally block of both IIFEs: the marker is cleared however the attempt ends.
MarkerAfterThrow_kept(f) == f
MarkerAfterThrow(f) == 0

\* A request of flight f throws e: the nested retry loops decide; when they
\* give up the IIFE's finally block clears the marker and the promise rejects.
FlightNetError(f, kind, e) ==
  LET d == OnNetError(kind, fl[f], e)
      n == IF kind = "query" THEN 0 ELSE 1   \* reqs counts the login / list requests
  IN
  IF d.act = "retry"
    THEN /\ fl' = [fl EXCEPT ![f].outer = d.outer, ![f].inner = d.inner, ![f].reqs = @ + n]
         /\ UNCHANGED <<authenticatePromise, getTasksPromise>>
    ELSE /\ fl' = [fl EXCEPT ![f] = Rejected([fl[f] EXCEPT !.reqs = @ + n], e)]
         /\ IF fl[f].kind = "auth"
              THEN authenticatePromise' = MarkerAfterThrow(f) /\ UNCHANGED getTasksPromise
              ELSE getTasksPromise' = MarkerAfterThrow(f) /\ UNCHANGED authenticatePromise

\* The discovery request of an authenticate() attempt completes.
AuthDiscoveryResponse(f) ==
  /\ f \in Slots
  /\ fl[f].st = "pending" /\ fl[f].stage = "query"
  /\ \/ \E e \in NetErrors :
          /\ FlightNetError(f, "query", e)
          /\ UNCHANGED apiInfo
     \/ /\ apiInfo' = TRUE
        /\ fl' = [fl EXCEPT ![f].stage = "login", ![f].outer = 0, ![f].inner = 0]
        /\ UNCHANGED <<authenticatePromise, getTasksPromise>>
     \/ /\ fl' = [fl EXCEPT ![f] = Rejected(@, DiscoveryFailed)]
        /\ authenticatePromise' = MarkerAfterThrow(f)
        /\ UNCHANGED <<apiInfo, getTasksPromise>>
  /\ UNCHANGED <<sid, tasksMap, cs, nextSid>>
  /\ UNCHANGED env

\* What authenticate() does with a login response that reports a failure
\* (success false or no sid), in a flight whose retry loops are in state o: the
\* throw comes after retry() has returned, so no catch block of retry() sees it.
\* (OnLoginFailure_retried: the check made inside the retried function.)
OnLoginFailure_retried(o) ==
  IF RetryCatch(o.outer, TRUE) = "retry"
    THEN [act |-> "retry", outer |-> o.outer + 1, inner |-> 0]
    ELSE [act |-> "throw", outer |-> 0, inner |-> 0]
OnLoginFailure(o) == [act |-> "throw", outer |-> 0, inner |-> 0]

\* A login request of an authenticate() attempt completes: a thrown error, a
\* response carrying a fresh session id, or a response without one.
LoginResponse(f) ==
  /\ f \in Slots
  /\ fl[f].st = "pending" /\ fl[f].stage = "login"
  /\ \/ \E e \in NetErrors :
          /\ FlightNetError(f, "login", e)
          /\ UNCHANGED <<sid, nextSid>>
     \/ /\ nextSid <= MaxSessions
        /\ sid' = nextSid
        /\ nextSid' = nextSid + 1
        /\ fl' = [fl EXCEPT ![f] = Fulfilled([@ EXCEPT !.reqs = @ + 1], nextSid, <<>>)]
        /\ authenticatePromise' = 0
        /\ UNCHANGED getTasksPromise
     \/ /\ LET d == OnLoginFailure(fl[f]) IN
           IF d.act = "retry"
             THEN /\ fl' = [fl EXCEPT ![f].outer = d.outer, ![f].inner = d.inner,
                                      ![f].reqs = @ + 1, ![f].err = AuthFailed]
                  /\ UNCHANGED authenticatePromise
             ELSE /\ fl' = [fl EXCEPT ![f] = Rejected([@ EXCEPT !.reqs = @ + 1], AuthFailed)]
                  /\ authenticatePromise' = MarkerAfterThrow(f)
        /\ UNCHANGED <<sid, nextSid, getTasksPromise>>
  /\ UNCHANGED <<apiInfo, tasksMap, cs>>
  /\ UNCHANGED env

\* What a caller that was handed promise f gets when it settles: its value or
\* its rejection reason, the same for every caller holding it.
\* (AwaitSettled_swallowed: a rejection handed over as a resolution.)
AwaitSettled_swallowed(f) ==
  [pc |-> "resolved", val |-> fl[f].val, tasks |-> fl[f].tasks, err |-> NoError]
AwaitSettled(f) ==
  [pc |-> IF fl[f].st = "fulfilled" THEN "resolved" ELSE "rejected",
   val |-> fl[f].val, tasks |-> fl[f].tasks, err |-> fl[f].err]

\* A caller awaiting a promise resumes once the promise has settled.
CallerResume(c) ==
  /\ cs[c].op \in {"authenticate", "getTasks"}
  /\ cs[c].pc = "await"
  /\ fl[cs[c].f].st # "pending"
  /\ cs' = [cs EXCEPT ![c].pc = AwaitSettled(cs[c].f).pc,
                      ![c].val = AwaitSettled(cs[c].f).val,
                      ![c].tasks = AwaitSettled(cs[c].f).tasks,
                      ![c].err = AwaitSettled(cs[c].f).err]
  /\ UNCHANGED <<apiInfo, sid, tasksMap, authenticatePromise, getTasksPromise, fl, nextSid>>
  /\ UNCHANGED env

\* ------------------------------------------------- initialize(), disconnect()
\* initialize(): starts the discovery request (the caller holds the api()
\* retry counter in inner).
CallInitialize(c) ==
  /\ cs[c].pc \in Idle
  /\ cs' = [cs EXCEPT ![c] = [IdleCaller EXCEPT !.op = "initialize", !.pc = "run"]]
  /\ fl' = Collect(fl, cs')
  /\ UNCHANGED <<apiInfo, sid, tasksMap, authenticatePromise, getTasksPromise, nextSid>>
  /\ UNCHANGED env

\* A request made by caller c itself (not by a shared promise) throws e; only
\* the retry loop of api() wraps discovery and logout.
CallerNetError(c, kind, e) ==
  LET d == OnNetError(kind, [outer |-> 0, inner |-> cs[c].inner], e) IN
  IF d.act = "retry"
    THEN cs' = [cs EXCEPT ![c].inner = d.inner]
    ELSE cs' = [cs EXCEPT ![c].pc = "rejected", ![c].err = e, ![c].inner = 0]

InitializeResponse(c) ==
  /\ cs[c].op = "initialize" /\ cs[c].pc = "run"
  /\ \/ \E e \in NetErrors : CallerNetError(c, "query", e) /\ UNCHANGED apiInfo
     \/ /\ apiInfo' = TRUE
        /\ cs' = [cs EXCEPT ![c].pc = "resolved", ![c].inner = 0]
     \/ /\ cs' = [cs EXCEPT ![c].pc = "rejected", ![c].err = DiscoveryFailed, ![c].inner = 0]
        /\ UNCHANGED apiInfo
  /\ UNCHANGED <<sid, tasksMap, authenticatePromise, getTasksPromise, fl, nextSid>>
  /\ UNCHANGED env

\* disconnect(), up to its first suspension: without a session (or without
\* capabilities) it returns at once; else it sends logout for the current sid
\* (kept in val: the argument of logout()).
CallDisconnect(c) ==
  /\ cs[c].pc \in Idle
  /\ IF sid # 0 /\ apiInfo
       THEN cs' = [cs EXCEPT ![c] = [IdleCaller EXCEPT !.op = "disconnect", !.pc = "run",
                                      !.val = sid]]
       ELSE cs' = [cs EXCEPT ![c] = [IdleCaller EXCEPT !.op = "disconnect",
                                      !.pc = "resolved"]]
  /\ fl' = Collect(fl, cs')
  /\ UNCHANGED <<apiInfo, sid, tasksMap, authenticatePromise, getTasksPromise, nextSid>>
  /\ UNCHANGED env

\* The logout request completes: on an answer this.sid is cleared; when the
\* request throws (after the api() retries) disconnect() rejects before the
\* assignment.
LogoutResponse(c) ==
  /\ cs[c].op = "disconnect" /\ cs[c].pc = "run"
  /\ \/ \E e \in NetErrors : CallerNetError(c, "logout", e) /\ UNCHANGED sid
     \/ /\ sid' = 0
        /\ cs' = [cs EXCEPT ![c].pc = "resolved", ![c].inner = 0]
  /\ UNCHANGED <<apiInfo, tasksMap, authenticatePromise, getTasksPromise, fl, nextSid>>
  /\ UNCHANGED env

\* ---------------------------------------------------------------- getTasks()
\* The guard of getTasks(): a fetch is already in flight.
TasksInFlight_never == FALSE
TasksInFlight == getTasksPromise # 0

\* getTasks(), up to its first suspension.
CallGetTasks(c) ==
  /\ cs[c].pc \in Idle
  /\ IF sid = 0
       THEN /\ cs' = [cs EXCEPT ![c] = [IdleCaller EXCEPT !.op = "getTasks",
                                         !.pc = "rejected", !.err = NotAuthenticated]]
            /\ fl' = Collect(fl, cs')
            /\ UNCHANGED getTasksPromise
     ELSE IF TasksInFlight
       THEN /\ cs' = [cs EXCEPT ![c] = [IdleCaller EXCEPT !.op = "getTasks",
                                         !.pc = "await", !.f = getTasksPromise]]
            /\ fl' = Collect(fl, cs')
            /\ UNCHANGED getTasksPromise
       ELSE LET f == NewSlot(c) IN
            /\ cs' = [cs EXCEPT ![c] = [IdleCaller EXCEPT !.op = "getTasks",
                                         !.pc = "await", !.f = f]]
            /\ fl' = Collect([fl EXCEPT ![f] = NewFlight("tasks", "list")], cs')
            /\ getTasksPromise' = f
  /\ UNCHANGED <<apiInfo, sid, tasksMap, authenticatePromise, nextSid>>
  /\ UNCHANGED env

\* A list request of a getTasks() fetch completes: a thrown error, a
\* successful response carrying a task list, or success = false.
\* The cache after a list response with success = false: the throw comes
\* before the assignment of this.tasksMap.
\* (CacheOnRefusedList_written: the assignment made before the check, from
\* the absent data of the response.)
CacheOnRefusedList_written == TasksMapOf(<<>>)
CacheOnRefusedList == tasksMap

ListResponse(f) ==
  /\ f \in Slots
  /\ fl[f].st = "pending" /\ fl[f].stage = "list"
  /\ \/ \E e \in NetErrors : FlightNetError(f, "list", e) /\ UNCHANGED tasksMap
     \/ \E tasks \in RemoteLists :
          /\ tasksMap' = TasksMapOf(tasks)
          /\ fl' = [fl EXCEPT ![f] = Fulfilled([@ EXCEPT !.reqs = @ + 1], 0, tasks)]
          /\ getTasksPromise' = 0
          /\ UNCHANGED authenticatePromise
     \/ /\ fl' = [fl EXCEPT ![f] = Rejected([@ EXCEPT !.reqs = @ + 1], ListFailed)]
        /\ getTasksPromise' = MarkerAfterThrow(f)
        /\ tasksMap' = CacheOnRefusedList
        /\ UNCHANGED authenticatePromise
  /\ UNCHANGED <<apiInfo, sid, cs, nextSid>>
  /\ UNCHANGED env

\* -------------------------------------------------------------- lib/tasks.ts
Absent == -1
OrZero(x) == IF x = Absent THEN 0 ELSE x

\* The comparator of sortTasksByUploadAndTime: negative, zero or positive.
\* (CompareTasks_uploadOnly: the same without the completion-time tie-break.)
CompareTasks_uploadOnly(a, b) == OrZero(a.size_uploaded) - OrZero(b.size_uploaded)
CompareTasks(a, b) ==
  IF OrZero(a.size_uploaded) # OrZero(b.size_uploaded)
    THEN OrZero(a.size_uploaded) - OrZero(b.size_uploaded)
    ELSE OrZero(a.completed_time) - OrZero(b.completed_time)

\* Array.prototype.sort with that comparator: a stable sort.
RECURSIVE InsertSorted(_, _)
InsertSorted(sorted, t) ==
  IF Len(sorted) = 0 THEN <<t>>
  ELSE IF CompareTasks(sorted[Len(sorted)], t) <= 0 THEN Append(sorted, t)
  ELSE Append(InsertSorted(SubSeq(sorted, 1, Len(sorted) - 1), t), sorted[Len(sorted)])

RECURSIVE SortFrom(_, _)
SortFrom(tasks, sorted) ==
  IF Len(tasks) = 0 THEN sorted ELSE SortFrom(Tail(tasks), InsertSorted(sorted, Head(tasks)))

sortTasksByUploadAndTime(tasks) == SortFrom(tasks, <<>>)

RECURSIVE calculateTotalSize(_)
calculateTotalSize(tasks) ==
  IF Len(tasks) = 0 THEN 0 ELSE Head(tasks).size + calculateTotalSize(Tail(tasks))

\* 1000 * 1000 * 1000 bytes, in the model's unit of 10^6 bytes.
UnitsPerGB == 1000

\* The budget in the model's unit, for maxSizeGB given in tenths of a GB.
MaxSizeBytes(maxSizeTenths) == (maxSizeTenths * UnitsPerGB) \div 10

\* The loop of selectTasksForPurge over the sorted list: push, add, break once
\* the running total exceeds the budget.
RECURSIVE PurgeWalk_stopAtBudget(_, _, _, _)
PurgeWalk_stopAtBudget(sortedTasks, tasksToPurge, currentSize, maxSizeBytes) ==
  IF Len(sortedTasks) = 0 THEN tasksToPurge
  ELSE LET task == Head(sortedTasks)
           size == currentSize + task.size
       IN IF size >= maxSizeBytes
            THEN Append(tasksToPurge, task)
            ELSE PurgeWalk_stopAtBudget(Tail(sortedTasks), Append(tasksToPurge, task), size,
                                        maxSizeBytes)

RECURSIVE PurgeWalk(_, _, _, _)
PurgeWalk(sortedTasks, tasksToPurge, currentSize, maxSizeBytes) ==
  IF Len(sortedTasks) = 0 THEN tasksToPurge
  ELSE LET task == Head(sortedTasks)
           size == currentSize + task.size
       IN IF size > maxSizeBytes
            THEN Append(tasksToPurge, task)
            ELSE PurgeWalk(Tail(sortedTasks), Append(tasksToPurge, task), size, maxSizeBytes)

selectTasksForPurge(tasks, maxSizeTenths) ==
  PurgeWalk(sortTasksByUploadAndTime(tasks), <<>>, 0, MaxSizeBytes(maxSizeTenths))

\* ------------------------------------------------------- deleteFromSystem()
NotRemoved == <<"none">>

\* The callback deleteFromSystem() runs for one path item, up to its await:
\* the full path, its validation, and the Deno.remove() call made when the
\* validation did not throw.
DeleteEntry_unchecked(pathItem) ==
  LET fullPath == IF path # <<>> THEN join(<<path, pathItem>>) ELSE pathItem
  IN [item |-> pathItem, validated |-> fullPath,
      verdict |-> validatePath(basePath, fullPath),
      removed |-> fullPath, st |-> "pending"]
DeleteEntry(pathItem) ==
  LET fullPath == IF path # <<>> THEN join(<<path, pathItem>>) ELSE pathItem
      verdict == validatePath(basePath, fullPath)
  IN [item |-> pathItem, validated |-> fullPath, verdict |-> verdict,
      removed |-> IF verdict = Accepted THEN fullPath ELSE NotRemoved,
      st |-> IF verdict = Accepted THEN "pending" ELSE "rejected"]

\* paths.map(async ...) handed to Promise.allSettled: one entry per path, a
\* throwing validation being the rejection of that entry alone.
\* (deleteFromSystem_untilFirstThrow: a loop that a throwing validation ends.)
deleteFromSystem_untilFirstThrow(paths) ==
  LET entries == [i \in DOMAIN paths |-> DeleteEntry(paths[i])]
      thrown == {i \in DOMAIN entries : entries[i].verdict # Accepted}
  IN IF thrown = {} THEN entries
     ELSE SubSeq(entries, 1, CHOOSE i \in thrown : \A j \in thrown : i <= j)
deleteFromSystem(paths) == [i \in DOMAIN paths |-> DeleteEntry(paths[i])]

AllSettled(entries) == \A i \in DOMAIN entries : entries[i].st # "pending"

\* ------------------------------------------------------- purgeTasksBySize()
filterSuccessfulDeletes(deleteResults) == SelectSeq(deleteResults, LAMBDA r : r.error = 0)
filterFailedDeletes(deleteResults) == SelectSeq(deleteResults, LAMBDA r : r.error # 0)

extractPathsFromTasks(tasks) ==
  LET dests == [i \in DOMAIN tasks |-> tasks[i].destination]
  IN SelectSeq(dests, LAMBDA d : d # NoDestination)

\* performSystemDeletions: the paths handed to deleteFromSystem(), looked up
\* in the cache as it is when phase 2 starts.
SystemDeletionPaths(successful) ==
  LET known == SelectSeq(successful, LAMBDA r : r.id \in DOMAIN tasksMap)
  IN extractPathsFromTasks([i \in DOMAIN known |-> tasksMap[known[i].id]])

EmptyResult ==
  [message |-> "No torrents to purge.", tasksToPurge |-> <<>>, totalSize |-> 0,
   dryRun |-> FALSE, successfulCount |-> Absent, failedCount |-> Absent]

createDryRunResult_none(tasksToPurge, totalSize) ==
  [message |-> "[DRY RUN] Simulated purge", tasksToPurge |-> <<>>, totalSize |-> 0,
   dryRun |-> TRUE, successfulCount |-> Absent, failedCount |-> Absent]
createDryRunResult(tasksToPurge, totalSize) ==
  [message |-> "[DRY RUN] Simulated purge", tasksToPurge |-> tasksToPurge,
   totalSize |-> totalSize, dryRun |-> TRUE,
   successfulCount |-> Absent, failedCount |-> Absent]

\* (createFinalResult_purgedOnly: the same, listing only the tasks whose remote
\* deletion succeeded.)
createFinalResult_purgedOnly(tasksToPurge, totalSize, deleteResults) ==
  [message |-> IF Len(filterFailedDeletes(deleteResults)) > 0
                 THEN "Purge completed with partial success" ELSE "Purge completed",
   tasksToPurge |-> SelectSeq(tasksToPurge, LAMBDA t :
                      \E i \in DOMAIN deleteResults :
                        deleteResults[i].id = t.id /\ deleteResults[i].error = 0),
   totalSize |-> totalSize, dryRun |-> FALSE,
   successfulCount |-> Len(filterSuccessfulDeletes(deleteResults)),
   failedCount |-> Len(filterFailedDeletes(deleteResults))]
createFinalResult(tasksToPurge, totalSize, deleteResults) ==
  [message |-> IF Len(filterFailedDeletes(deleteResults)) > 0
                 THEN "Purge completed with partial success" ELSE "Purge completed",
   tasksToPurge |-> tasksToPurge, totalSize |-> totalSize, dryRun |-> FALSE,
   successfulCount |-> Len(filterSuccessfulDeletes(deleteResults)),
   failedCount |-> Len(filterFailedDeletes(deleteResults))]

\* The budgets (tenths of a GB) and modes a purge is called with.
Budgets == {25}

DeleteFailed == "Failed to delete tasks"
DeleteErrorCode == 405

\* What the remote side may answer a delete of ids with: one entry per id,
\* each with error 0 or a failure code, possibly followed by an entry for an
\* id that was not asked for.
DeleteAnswers(ids) ==
  LET plain == {[i \in DOMAIN ids |-> [id |-> ids[i], error |-> e[i]]] :
                  e \in [DOMAIN ids -> {0, DeleteErrorCode}]}
      asked == {ids[i] : i \in DOMAIN ids}
  IN plain \cup {Append(a, [id |-> x, error |-> 0]) : a \in plain, x \in AllIds \ asked}

NoResult == [EmptyResult EXCEPT !.message = "none"]

\* The locals of a purgeTasksBySize() call that has just started.
NewPurge(dryRun, maxSize) ==
  [stage |-> "tasks", dryRun |-> dryRun, maxSize |-> maxSize, fetched |-> <<>>,
   tasksToPurge |-> <<>>, totalSize |-> 0, outer |-> 0, inner |-> 0, delReqs |-> 0,
   delErr |-> NoError, deleteResults |-> <<>>, planned |-> <<>>, fs |-> <<>>,
   result |-> NoResult]

\* purgeTasksBySize(maxSizeGB, dryRun), up to its first suspension: the
\* getTasks() call it awaits.
CallPurge(c) ==
  /\ cs[c].pc \in Idle
  /\ \E dryRun \in BOOLEAN, maxSize \in Budgets :
       IF sid = 0
         THEN /\ cs' = [cs EXCEPT ![c] = [IdleCaller EXCEPT !.op = "purge",
                                           !.pc = "rejected", !.err = NotAuthenticated]]
              /\ pg' = [pg EXCEPT ![c] = NoPurge]
              /\ fl' = Collect(fl, cs')
              /\ UNCHANGED getTasksPromise
       ELSE
         /\ pg' = [pg EXCEPT ![c] = NewPurge(dryRun, maxSize)]
         /\ IF TasksInFlight
              THEN /\ cs' = [cs EXCEPT ![c] = [IdleCaller EXCEPT !.op = "purge",
                                                !.pc = "await", !.f = getTasksPromise]]
                   /\ fl' = Collect(fl, cs')
                   /\ UNCHANGED getTasksPromise
              ELSE LET f == NewSlot(c) IN
                   /\ cs' = [cs EXCEPT ![c] = [IdleCaller EXCEPT !.op = "purge",
                                                !.pc = "await", !.f = f]]
                   /\ fl' = Collect([fl EXCEPT ![f] = NewFlight("tasks", "list")], cs')
                   /\ getTasksPromise' = f
  /\ UNCHANGED <<apiInfo, sid, tasksMap, authenticatePromise, nextSid, path, basePath, cli, fsys, rt, sel, rm>>

\* The local deletions purgeTasksBySize() issues before performApiDeletions()
\* has settled: none, the two phases are awaited one after the other.
PathsBeforeApiSettles_parallel(tasksToPurge) == extractPathsFromTasks(tasksToPurge)
PathsBeforeApiSettles(tasksToPurge) == <<>>

\* purgeTasksBySize() resumes with the outcome of getTasks(): it returns for an
\* empty list, selects (the sort is in place: every holder of the array sees
\* it sorted), returns the simulation in dry-run mode, and otherwise sends the
\* remote delete of phase 1.
PurgeAfterFetch(c) ==
  /\ cs[c].op = "purge" /\ cs[c].pc = "await" /\ pg[c].stage = "tasks"
  /\ fl[cs[c].f].st # "pending"
  /\ LET f == cs[c].f
         tasks == fl[f].tasks
         sorted == sortTasksByUploadAndTime(tasks)
         tasksToPurge == selectTasksForPurge(tasks, pg[c].maxSize)
         totalSize == calculateTotalSize(tasksToPurge)
         selected == [pg[c] EXCEPT !.fetched = tasks, !.tasksToPurge = tasksToPurge,
                                   !.totalSize = totalSize]
     IN
     IF fl[f].st = "rejected"
       THEN /\ cs' = [cs EXCEPT ![c].pc = "rejected", ![c].err = fl[f].err]
            /\ pg' = [pg EXCEPT ![c].stage = "failed"]
            /\ UNCHANGED fl
     ELSE IF Len(tasks) = 0
       THEN /\ cs' = [cs EXCEPT ![c].pc = "resolved"]
            /\ pg' = [pg EXCEPT ![c].stage = "done", ![c].result = EmptyResult]
            /\ UNCHANGED fl
     ELSE
       /\ fl' = [fl EXCEPT ![f].tasks = sorted]
       /\ IF pg[c].dryRun
            THEN /\ cs' = [d \in Callers |->
                             IF d = c THEN [cs[c] EXCEPT !.pc = "resolved"]
                             ELSE IF cs[d].f = f /\ cs[d].pc = "resolved"
                               THEN [cs[d] EXCEPT !.tasks = sorted]
                             ELSE cs[d]]
                 /\ pg' = [pg EXCEPT ![c] = [selected EXCEPT !.stage = "done",
                             !.result = createDryRunResult(tasksToPurge, totalSize)]]
          ELSE IF sid = 0
            THEN /\ cs' = [d \in Callers |->
                             IF d = c THEN [cs[c] EXCEPT !.pc = "rejected", !.err = NotAuthenticated]
                             ELSE IF cs[d].f = f /\ cs[d].pc = "resolved"
                               THEN [cs[d] EXCEPT !.tasks = sorted]
                             ELSE cs[d]]
                 /\ pg' = [pg EXCEPT ![c] = [selected EXCEPT !.stage = "failed"]]
          ELSE /\ cs' = [d \in Callers |->
                           IF d = c THEN [cs[c] EXCEPT !.pc = "run"]
                           ELSE IF cs[d].f = f /\ cs[d].pc = "resolved"
                             THEN [cs[d] EXCEPT !.tasks = sorted]
                           ELSE cs[d]]
               /\ pg' = [pg EXCEPT ![c] = [selected EXCEPT !.stage = "delete",
                           !.fs = deleteFromSystem(PathsBeforeApiSettles(tasksToPurge))]]
  /\ UNCHANGED <<apiInfo, sid, tasksMap, authenticatePromise, getTasksPromise, nextSid,
                 path, basePath, cli, fsys, rt, sel, rm>>

\* The purge ends once every local deletion has settled.
FinishPurge(c, p) ==
  IF AllSettled(p.fs)
    THEN /\ pg' = [pg EXCEPT ![c] = [p EXCEPT !.stage = "done",
                     !.result = createFinalResult(p.tasksToPurge, p.totalSize, p.deleteResults)]]
         /\ cs' = [cs EXCEPT ![c].pc = "resolved"]
    ELSE /\ pg' = [pg EXCEPT ![c] = [p EXCEPT !.stage = "fs"]]
         /\ UNCHANGED cs

\* removeTasksByIds() on a response with success = false: it throws.
\* (OnDeleteRefused_returned: it returns response.data || [] all the same.)
OnDeleteRefused_returned == "return"
OnDeleteRefused == "throw"

\* The delete request of phase 1 completes.  A thrown error goes through the
\* retry loops; success = false makes removeTasksByIds() throw; a result list
\* is partitioned and phase 2 issues the local deletions of the successful part.
DeleteResponse(c) ==
  /\ cs[c].op = "purge" /\ cs[c].pc = "run" /\ pg[c].stage = "delete"
  /\ \/ \E e \in NetErrors :
          LET d == OnNetError("delete", pg[c], e) IN
          IF d.act = "retry"
            THEN /\ pg' = [pg EXCEPT ![c].outer = d.outer, ![c].inner = d.inner,
                                     ![c].delReqs = @ + 1]
                 /\ UNCHANGED cs
            ELSE /\ pg' = [pg EXCEPT ![c].stage = "failed", ![c].outer = 0, ![c].inner = 0,
                                     ![c].delReqs = @ + 1, ![c].delErr = e]
                 /\ cs' = [cs EXCEPT ![c].pc = "rejected", ![c].err = e]
     \/ LET refused == [pg[c] EXCEPT !.outer = 0, !.inner = 0, !.delReqs = @ + 1,
                                     !.delErr = DeleteFailed]
        IN IF OnDeleteRefused = "throw"
             THEN /\ pg' = [pg EXCEPT ![c] = [refused EXCEPT !.stage = "failed"]]
                  /\ cs' = [cs EXCEPT ![c].pc = "rejected", ![c].err = DeleteFailed]
             ELSE FinishPurge(c, refused)
     \/ \E deleteResults \in DeleteAnswers([i \in DOMAIN pg[c].tasksToPurge |->
                                              pg[c].tasksToPurge[i].id]) :
          LET successful == filterSuccessfulDeletes(deleteResults)
              paths == IF Len(successful) = 0 THEN <<>> ELSE SystemDeletionPaths(successful)
          IN FinishPurge(c, [pg[c] EXCEPT !.outer = 0, !.inner = 0, !.delReqs = @ + 1,
                                          !.deleteResults = deleteResults,
                                          !.planned = paths,
                                          !.fs = pg[c].fs \o deleteFromSystem(paths)])
  /\ UNCHANGED <<apiInfo, sid, tasksMap, authenticatePromise, getTasksPromise, fl, nextSid,
                 path, basePath, cli, fsys, rt, sel, rm>>

\* One Deno.remove() of phase 2 completes, successfully or not.  The removals
\* run side by side and nothing reads one outcome before Promise.allSettled
\* has them all, so they are taken in the order of the plan.
FsResult(c) ==
  /\ cs[c].op = "purge" /\ cs[c].pc = "run" /\ pg[c].stage = "fs"
  /\ \E i \in DOMAIN pg[c].fs, outcome \in {"fulfilled", "rejected"} :
       /\ pg[c].fs[i].st = "pending"
       /\ \A j \in 1..(i - 1) : pg[c].fs[j].st # "pending"
       /\ FinishPurge(c, [pg[c] EXCEPT !.fs[i].st = outcome])
  /\ UNCHANGED <<apiInfo, sid, tasksMap, authenticatePromise, getTasksPromise, fl, nextSid,
                 path, basePath, cli, fsys, rt, sel, rm>>

\* ------------------------------------------------------------ specification
Next ==
  \/ \E c \in Callers : CallAuthenticate(c)
  \/ \E c \in Callers : CallInitialize(c)
  \/ \E c \in Callers : CallDisconnect(c)
  \/ \E c \in Callers : CallGetTasks(c)
  \/ \E c \in Callers : CallerResume(c)
  \/ \E c \in Callers : InitializeResponse(c)
  \/ \E c \in Callers : LogoutResponse(c)
  \/ \E f \in Slots : AuthDiscoveryResponse(f)
  \/ \E f \in Slots : LoginResponse(f)
  \/ \E f \in Slots : ListResponse(f)

Spec == Init /\ [][Next]_vars

\* The purge scenarios start from a client that has authenticated.
InitPurge ==
  /\ path = Root
  /\ basePath = Root
  /\ pg = [c \in Callers |-> NoPurge]
  /\ fsys = NoFsCall
  /\ rt = NoRetryCall
  /\ sel = NoSelectCall
  /\ rm = NoRemoveCall
  /\ cli = NoCommand
  /\ apiInfo = TRUE
  /\ sid = 1
  /\ tasksMap = <<>>
  /\ authenticatePromise = 0
  /\ getTasksPromise = 0
  /\ fl = [f \in Slots |-> FreeFlight]
  /\ cs = [c \in Callers |-> IdleCaller]
  /\ nextSid = 2

\* One caller purges, the other one fetches the task list on the same client.
Purgers == {1}

NextPurge ==
  \/ \E c \in Callers \ Purgers : CallGetTasks(c)
  \/ \E c \in Purgers : CallPurge(c)
  \/ \E c \in Callers : CallerResume(c)
  \/ \E f \in Slots : ListResponse(f)
  \/ \E c \in Purgers : PurgeAfterFetch(c)
  \/ \E c \in Purgers : DeleteResponse(c)
  \/ \E c \in Purgers : FsResult(c)

SpecPurge == InitPurge /\ [][NextPurge]_vars

\* --------------------------------------------- the path guard on its own
\* Direct calls of deleteFromSystem(paths) and validatePath(fullPath) on a
\* client configured with any of these (path, basePath) pairs, for every
\* path string over Chars up to MaxPathLen characters.
Chars == {Slash, Dot, "r"}
PathStrings == UNION {[1..k -> Chars] : k \in 0..MaxPathLen}
Configs ==
  { <<Root, Root>>, <<<<>>, <<>>>>, <<Root, <<>>>>, <<<<"r">>, <<"r">>>>,
    <<Root, <<Slash, "r", Slash>>>> }

InitFs ==
  /\ \E cfg \in Configs : path = cfg[1] /\ basePath = cfg[2]
  /\ pg = [c \in Callers |-> NoPurge]
  /\ fsys = NoFsCall
  /\ rt = NoRetryCall
  /\ sel = NoSelectCall
  /\ rm = NoRemoveCall
  /\ cli = NoCommand
  /\ apiInfo = FALSE
  /\ sid = 0
  /\ tasksMap = <<>>
  /\ authenticatePromise = 0
  /\ getTasksPromise = 0
  /\ fl = [f \in Slots |-> FreeFlight]
  /\ cs = [c \in Callers |-> IdleCaller]
  /\ nextSid = 1

client == <<apiInfo, sid, tasksMap, authenticatePromise, getTasksPromise, fl, cs, nextSid,
            path, basePath, cli, pg, rt, sel, rm>>

\* deleteFromSystem([pathItem]) up to the point where every callback is suspended.
CallDeleteFromSystem ==
  /\ fsys = NoFsCall
  /\ \E pathItem \in PathStrings :
       fsys' = [NoFsCall EXCEPT !.entries = deleteFromSystem(<<pathItem>>)]
  /\ UNCHANGED client

\* A Deno.remove() of that call completes.
RemoveSettles ==
  /\ \E i \in DOMAIN fsys.entries, outcome \in {"fulfilled", "rejected"} :
       /\ fsys.entries[i].st = "pending"
       /\ fsys' = [fsys EXCEPT !.entries[i].st = outcome]
  /\ UNCHANGED client

\* validatePath(fullPath), called directly.
CallValidatePath ==
  /\ fsys = NoFsCall
  /\ \E fullPath \in PathStrings :
       fsys' = [NoFsCall EXCEPT !.validated = fullPath,
                                !.verdict = validatePath(basePath, fullPath)]
  /\ UNCHANGED client

\* The call has returned; the next direct call starts from a clean record.
CallReturns ==
  /\ fsys # NoFsCall
  /\ AllSettled(fsys.entries)
  /\ fsys' = NoFsCall
  /\ UNCHANGED client

NextFs == CallDeleteFromSystem \/ RemoveSettles \/ CallValidatePath \/ CallReturns

SpecFs == InitFs /\ [][NextFs]_vars

\* =================================================================== claims
Pending(kind) == {f \in Slots : fl[f].kind = kind /\ fl[f].st = "pending"}

\* The callers whose call of `op` was handed promise f.
Joined(op, f) == {c \in Callers : cs[c].op = op /\ cs[c].f = f}

\* The most HTTP requests one retry()-wrapped remote call can send: the retry
\* loop of the client around the retry loop of api().
MaxRequests == (RetryAttempts + 1) * (RetryAttempts + 1)

\* C1, as stated: every authenticate() attempt that resolves has sent exactly
\* one login request.
C1_ExactlyOneLoginRequest ==
  \A f \in Slots : fl[f].kind = "auth" /\ fl[f].st = "fulfilled" => fl[f].reqs = 1

C1_SingleFlight ==
  /\ Cardinality(Pending("auth")) <= 1
  /\ \A f \in Pending("auth") : authenticatePromise = f
  /\ \A c \in Callers : cs[c].op = "authenticate" /\ cs[c].pc = "await"
        => fl[cs[c].f].kind = "auth"
  /\ \A f \in Slots : fl[f].kind = "auth" /\ fl[f].st = "fulfilled" =>
        /\ fl[f].reqs >= 1 /\ fl[f].reqs <= MaxRequests
        /\ fl[f].val # 0
        /\ \A c \in Joined("authenticate", f) :
              cs[c].pc = "resolved" => cs[c].val = fl[f].val
  /\ \A f, g \in Slots :
        /\ fl[f].kind = "auth" /\ fl[f].st = "fulfilled"
        /\ fl[g].kind = "auth" /\ fl[g].st = "fulfilled"
        /\ f # g
        => fl[f].val # fl[g].val

C1_StoresToken ==
  \A f \in Slots :
    fl[f].kind = "auth" /\ fl[f].st = "pending" /\ fl'[f].st = "fulfilled"
      => sid' = fl'[f].val

\* C1, amended: the authenticate() calls issued while an attempt is unsettled
\* share that one attempt (never two attempts in flight); the attempt sends at
\* least one and at most (attempts+1)^2 login requests (its retries), of which
\* only the last is answered with a session id; every caller handed the attempt
\* resolves to that session id, which is what the attempt stored in this.sid.
C1_SingleFlightLogin == [](C1_SingleFlight) /\ [][C1_StoresToken]_vars

\* C1 witness: two callers resolved by the same authenticate() attempt.
C1_Witness ==
  \E c, d \in Callers :
    /\ c # d
    /\ cs[c].op = "authenticate" /\ cs[c].pc = "resolved"
    /\ cs[d].op = "authenticate" /\ cs[d].pc = "resolved"
    /\ cs[c].f = cs[d].f
    /\ fl[cs[c].f].reqs > 1

\* C2, as stated: every getTasks() fetch that resolves has performed exactly one
\* remote list fetch.
C2_ExactlyOneListFetch ==
  \A f \in Slots : fl[f].kind = "tasks" /\ fl[f].st = "fulfilled" => fl[f].reqs = 1

C2_SingleFlight ==
  /\ Cardinality(Pending("tasks")) <= 1
  /\ \A f \in Pending("tasks") : getTasksPromise = f
  /\ \A c \in Callers : cs[c].op = "getTasks" /\ cs[c].pc = "await"
        => fl[cs[c].f].kind = "tasks"
  /\ \A f \in Slots : fl[f].kind = "tasks" /\ fl[f].st = "fulfilled" =>
        /\ fl[f].reqs >= 1 /\ fl[f].reqs <= MaxRequests
        /\ \A c \in Joined("getTasks", f) :
              cs[c].pc = "resolved" => cs[c].tasks = fl[f].tasks

C2_BuildsCache ==
  \A f \in Slots :
    fl[f].kind = "tasks" /\ fl[f].st = "pending" /\ fl'[f].st = "fulfilled"
      => tasksMap' = TasksMapOf(fl'[f].tasks)

\* C2, amended: the getTasks() calls issued while a fetch is in flight share
\* that one fetch (never two in flight); the fetch sends at least one and at
\* most (attempts+1)^2 list requests (its retries), only the last answered;
\* every caller handed the fetch receives its task list, and when it settles
\* the cache is the one built from that list.
C2_SingleFlightFetch == [](C2_SingleFlight) /\ [][C2_BuildsCache]_vars

\* C2 witness: two callers were handed the list of the same fetch.
C2_Witness ==
  \E c, d \in Callers :
    /\ c # d
    /\ cs[c].op = "getTasks" /\ cs[c].pc = "resolved"
    /\ cs[d].op = "getTasks" /\ cs[d].pc = "resolved"
    /\ cs[c].f = cs[d].f
    /\ fl[cs[c].f].reqs > 1
    /\ Len(cs[c].tasks) > 0

C3_MarkerIdle ==
  /\ authenticatePromise # 0 =>
        fl[authenticatePromise].kind = "auth" /\ fl[authenticatePromise].st = "pending"
  /\ getTasksPromise # 0 =>
        fl[getTasksPromise].kind = "tasks" /\ fl[getTasksPromise].st = "pending"

C3_FreshAttempt ==
  \A c \in Callers :
    cs[c].pc \in Idle /\ cs'[c].pc = "await"
      => /\ fl'[cs'[c].f].st = "pending"
         /\ (cs'[c].op = "authenticate" /\ Pending("auth") = {}
               => fl'[cs'[c].f].kind = "auth" /\ fl'[cs'[c].f].reqs = 0)
         /\ (cs'[c].op = "getTasks" /\ Pending("tasks") = {}
               => fl'[cs'[c].f].kind = "tasks" /\ fl'[cs'[c].f].reqs = 0)

\* C3: a marker is non-null only while the attempt it names is unsettled,
\* whatever way the attempt ended (result, remote failure, thrown error); so a
\* call made after settlement is never handed the old promise: it starts an
\* attempt of its own that has sent nothing yet.
C3_MarkerClearedOnEveryExit == [](C3_MarkerIdle) /\ [][C3_FreshAttempt]_vars

\* C3 witness: one caller saw a fetch end in a thrown error, another one
\* awaits the fresh fetch started after it.
C3_Witness ==
  \E c, d \in Callers :
    /\ cs[c].op = "getTasks" /\ cs[c].pc = "rejected" /\ cs[c].err \in NetErrors
    /\ cs[d].op = "getTasks" /\ cs[d].pc = "await"
    /\ cs[d].f # cs[c].f
    /\ fl[cs[d].f].st = "pending"

\* C4: in a purge no local deletion has been issued while the remote delete of
\* phase 1 (the request and every retry of it) is unsettled, nor after it has
\* failed: local deletions exist only once phase 1 has returned its results.
C4_PhaseTwoAfterPhaseOne ==
  \A c \in Purgers :
    pg[c].stage # "none" /\ pg[c].fs # <<>>
      => /\ pg[c].stage \in {"fs", "done"}
         /\ ~pg[c].dryRun
         /\ pg[c].delReqs >= 1
         /\ pg[c].outer = 0 /\ pg[c].inner = 0

\* C4 witness: phase 2 is running after a phase 1 that needed a retry.
C4_Witness ==
  \E c \in Purgers :
    /\ pg[c].stage = "fs"
    /\ pg[c].delReqs > 1
    /\ \E i \in DOMAIN pg[c].fs : pg[c].fs[i].st = "pending"

\* The destinations of the tasks of list `tasks` whose id has a remote result
\* with error code 0.
DestinationsDeletedRemotely(tasks, deleteResults) ==
  {tasks[k].destination : k \in {j \in DOMAIN tasks :
      /\ tasks[j].destination # NoDestination
      /\ \E i \in DOMAIN deleteResults :
           deleteResults[i].id = tasks[j].id /\ deleteResults[i].error = 0}}

\* C5: once phase 1 has returned, the purge does not fail; the counts are those
\* of the results with error 0 and with a non-zero error; and the destinations
\* attempted locally are exactly those of the tasks deleted remotely.
C5_PartialFailureIsolation ==
  \A c \in Purgers :
    pg[c].stage \in {"fs", "done"} /\ ~pg[c].dryRun /\ Len(pg[c].fetched) > 0
      => /\ {pg[c].fs[i].item : i \in DOMAIN pg[c].fs}
              = DestinationsDeletedRemotely(pg[c].fetched, pg[c].deleteResults)
         /\ pg[c].stage = "done" =>
              /\ pg[c].result.successfulCount =
                   Cardinality({i \in DOMAIN pg[c].deleteResults : pg[c].deleteResults[i].error = 0})
              /\ pg[c].result.failedCount =
                   Cardinality({i \in DOMAIN pg[c].deleteResults : pg[c].deleteResults[i].error # 0})

\* C6: every Deno.remove() is made on the very path that was validated just
\* before it, and only when that validation accepted the path.
C6_RemovalOnlyAfterValidation ==
  \A i \in DOMAIN fsys.entries :
    LET e == fsys.entries[i] IN
    /\ e.removed # NotRemoved =>
         /\ e.validated = e.removed
         /\ e.verdict = Accepted
    /\ e.verdict # Accepted => e.removed = NotRemoved /\ e.st = "rejected"

\* C6 witness: a removal was issued for a validated path, a non-trivial one.
C6_Witness ==
  \E i \in DOMAIN fsys.entries :
    /\ fsys.entries[i].removed # NotRemoved
    /\ fsys.entries[i].verdict = Accepted
    /\ Len(fsys.entries[i].item) > 2
    /\ fsys.entries[i].st = "fulfilled"

\* The path string has a parent-directory segment.
HasParentSegment(p) == \E k \in DOMAIN Split(p) : Split(p)[k] = <<Dot, Dot>>

\* C7: a destination with a ".." segment is rejected, no removal is made for it.
C7_ParentSegmentRejected ==
  \A i \in DOMAIN fsys.entries :
    HasParentSegment(fsys.entries[i].item)
      => fsys.entries[i].removed = NotRemoved /\ fsys.entries[i].st = "rejected"

\* p is the directory base or lies below it in the directory tree.
UnderRoot(base, p) ==
  LET bs == NormalizeSegments(Split(base), <<>>, FALSE)
      ps == NormalizeSegments(Split(p), <<>>, FALSE)
  IN /\ startsWith(base, <<Slash>>) /\ startsWith(p, <<Slash>>)
     /\ startsWith(ps, bs)

\* C8: a path that is neither the root nor below it is rejected by
\* validatePath(), so nothing outside the root is ever removed.
C8_OutsideRootRejected ==
  /\ fsys.verdict = Accepted => UnderRoot(basePath, fsys.validated)
  /\ \A i \in DOMAIN fsys.entries :
       fsys.entries[i].removed # NotRemoved => UnderRoot(basePath, fsys.entries[i].removed)

\* C9: validatePath() accepts only with a configured base path and only an
\* absolute path; with an empty base path every path is rejected with the
\* "Base path is not configured" error and deleteFromSystem() removes nothing.
C9_ConfiguredAndAbsolute ==
  /\ fsys.verdict = Accepted =>
       basePath # <<>> /\ startsWith(fsys.validated, <<Slash>>)
  /\ basePath = <<>> /\ fsys.verdict # "none" => fsys.verdict = BasePathNotConfigured
  /\ \A i \in DOMAIN fsys.entries :
       LET e == fsys.entries[i] IN
       /\ e.removed # NotRemoved => basePath # <<>> /\ startsWith(e.removed, <<Slash>>)
       /\ basePath = <<>> => e.verdict = BasePathNotConfigured /\ e.removed = NotRemoved

\* C9 witness: with no base path a deleteFromSystem() item was rejected.
C9_Witness ==
  /\ basePath = <<>>
  /\ \E i \in DOMAIN fsys.entries :
       /\ fsys.entries[i].verdict = BasePathNotConfigured
       /\ fsys.entries[i].st = "rejected"
       /\ Len(fsys.entries[i].item) > 0

\* C10: a dry-run purge sends no delete request and issues no local deletion,
\* and the list and total it returns are the selection made from the list it
\* fetched and its budget: the very selection a real run hands to phase 1.
C10_DryRunPure ==
  \A c \in Purgers :
    /\ pg[c].stage # "none" /\ pg[c].dryRun =>
         /\ pg[c].delReqs = 0
         /\ pg[c].fs = <<>>
         /\ pg[c].stage \in {"tasks", "done", "failed"}
         /\ pg[c].stage = "done" =>
              /\ pg[c].result.tasksToPurge = selectTasksForPurge(pg[c].fetched, pg[c].maxSize)
              /\ pg[c].result.totalSize = calculateTotalSize(pg[c].result.tasksToPurge)
    /\ pg[c].stage \in {"delete", "fs", "done"} /\ ~pg[c].dryRun =>
         /\ pg[c].tasksToPurge = selectTasksForPurge(pg[c].fetched, pg[c].maxSize)
         /\ pg[c].stage = "done" => pg[c].result.tasksToPurge = pg[c].tasksToPurge

\* C10 witness: a dry run has returned a selection that leaves a task out.
C10_Witness ==
  \E c \in Purgers :
    /\ pg[c].stage = "done" /\ pg[c].dryRun
    /\ Len(pg[c].result.tasksToPurge) > 0
    /\ Len(pg[c].result.tasksToPurge) < Len(pg[c].fetched)

\* C11: every result a dry-run purgeTasksBySize() returns carries dryRun = true,
\* whatever list was fetched, the empty one included.
C11_DryRunResultTagged ==
  \A c \in Purgers :
    pg[c].stage = "done" /\ pg[c].dryRun => pg[c].result.dryRun

\* ------------------------------------------------------------------ retry()
\* retry(fn, options) on an operation fn of its own, with the attempt count
\* taken from options.attempts or from the RETRY_ATTEMPTS setting.
MaxConfigured == 3
DefaultRetryAttempts == 3

\* x || d on a number: d when x is undefined or 0.
OrDefault(x, d) == IF x = Absent \/ x = 0 THEN d ELSE x

\* config.retryAttempts for a RETRY_ATTEMPTS setting (Absent: not set).
configRetryAttempts(setting) == OrDefault(setting, DefaultRetryAttempts)

\* const attempts = options.attempts || config.retryAttempts
resolveAttempts(optAttempts, setting) == OrDefault(optAttempts, configRetryAttempts(setting))

AttemptSettings == {Absent} \cup 0..MaxConfigured

\* config.retryDelay for a RETRY_DELAY setting, in milliseconds.
DefaultRetryDelay == 1000
configRetryDelay(setting) == OrDefault(setting, DefaultRetryDelay)

\* const baseDelay = options.delay || config.retryDelay
resolveDelay(optDelay, setting) == OrDefault(optDelay, configRetryDelay(setting))

\* Math.random() returns r / RandomSteps for some r in 0..RandomSteps-1: a
\* number from 0 up to but not including 1.  Delays are counted in ticks,
\* TicksPerMs to the millisecond, so that the jitter is a whole number.
RandomSteps == 4
RandomDraws == 0..(RandomSteps - 1)
TicksPerMs == 10 * RandomSteps

RECURSIVE Pow2(_)
Pow2(n) == IF n = 0 THEN 1 ELSE 2 * Pow2(n - 1)

\* jitter = Math.random() * 0.1 * exponentialDelay, in ticks, for the draw r.
\* (Jitter_whole: Math.random() * exponentialDelay, the factor 0.1 left out.)
Jitter_whole(exponentialDelay, r) == 10 * r * exponentialDelay
Jitter(exponentialDelay, r) == r * exponentialDelay

\* calculateDelay(attempt, baseDelay), in ticks, for the draw r.
calculateDelay(attempt, baseDelay, r) ==
  LET exponentialDelay == baseDelay * Pow2(attempt)
  IN exponentialDelay * TicksPerMs + Jitter(exponentialDelay, r)

\* const shouldRetry = options.shouldRetry || isTransientError; the predicate a
\* caller passes accepts one error of its own choosing, here the non-JSON one.
RetryPredicates == {"default", "custom"}
shouldRetry(pred, e) ==
  IF pred = "custom" THEN e = NonJsonResponse ELSE isTransientError(e)

\* The values the operation may return.
FnValues == {"v1", "v2"}

\* return await fn(): what retry() returns when the invocation returned v.
ReturnOfRetry(v) == v

\* throw error, in the catch block: what retry() throws when the invocation
\* just made threw `error` and the first one had thrown `first`.
\* (ThrownByRetry_first: the error of the first invocation kept and thrown.)
ThrownByRetry_first(error, first) == first
ThrownByRetry(error, first) == error

\* The catch block of retry() call `call`, whose invocation just threw e: it
\* goes to sleep for a delay computed with the draw r, or it rethrows.
RetryCatches(call, e, r) ==
  LET first == IF call.firstErr = NoError THEN e ELSE call.firstErr
      next == CatchBlock(call.attempts, call.attempt, shouldRetry(call.pred, e))
  IN [call EXCEPT
        !.st = IF next = "retry" THEN "sleeping" ELSE "thrown",
        !.delay = IF next = "retry"
                    THEN calculateDelay(call.attempt, call.baseDelay, r) ELSE @,
        !.prevDelay = IF next = "retry" THEN call.delay ELSE @,
        !.err = e,
        !.firstErr = first,
        !.raised = IF next = "retry" THEN NoError ELSE ThrownByRetry(e, first),
        !.allTransient = @ /\ isTransientError(e)]

\* The draws the catch block makes: one when it computes a delay.
DrawsFor(call, e) ==
  IF CatchBlock(call.attempts, call.attempt, shouldRetry(call.pred, e)) = "retry"
    THEN RandomDraws ELSE {0}

\* retry() is called: the loop starts and fn is invoked for the first time.
CallRetry ==
  /\ rt = NoRetryCall
  /\ \E optAttempts \in AttemptSettings, setting \in AttemptSettings, pred \in RetryPredicates,
        optDelay \in {Absent, 0, 50}, delaySetting \in {Absent, 0, 10} :
       rt' = [st |-> "invoked", optAttempts |-> optAttempts, setting |-> setting,
              attempts |-> resolveAttempts(optAttempts, setting),
              pred |-> pred, attempt |-> 0, calls |-> 1, allTransient |-> TRUE,
              err |-> NoError, firstErr |-> NoError, raised |-> NoError,
              fnValue |-> Absent, value |-> Absent,
              baseDelay |-> resolveDelay(optDelay, delaySetting),
              delay |-> Absent, prevDelay |-> Absent]
  /\ UNCHANGED <<apiInfo, sid, tasksMap, authenticatePromise, getTasksPromise, fl, cs,
                 nextSid, path, basePath, cli, pg, fsys, sel, rm>>

\* The invocation of fn settles: it returns, or throws e and the catch block
\* either goes to sleep before the next attempt or rethrows.
FnSettles ==
  /\ rt.st = "invoked"
  /\ \/ \E v \in FnValues :
          rt' = [rt EXCEPT !.st = "returned", !.fnValue = v, !.value = ReturnOfRetry(v)]
     \/ \E e \in NetErrors :
          \E r \in DrawsFor(rt, e) : rt' = RetryCatches(rt, e, r)
  /\ UNCHANGED <<apiInfo, sid, tasksMap, authenticatePromise, getTasksPromise, fl, cs,
                 nextSid, path, basePath, cli, pg, fsys, sel, rm>>

\* The sleep before a retry ends: next turn of the loop, fn is invoked again.
SleepEnds ==
  /\ rt.st = "sleeping"
  /\ rt' = [rt EXCEPT !.st = "invoked", !.attempt = @ + 1, !.calls = @ + 1]
  /\ UNCHANGED <<apiInfo, sid, tasksMap, authenticatePromise, getTasksPromise, fl, cs,
                 nextSid, path, basePath, cli, pg, fsys, sel, rm>>

\* The caller has seen the outcome; a later retry() call starts afresh.
RetryReturns ==
  /\ rt.st \in {"returned", "thrown"}
  /\ rt' = NoRetryCall
  /\ UNCHANGED <<apiInfo, sid, tasksMap, authenticatePromise, getTasksPromise, fl, cs,
                 nextSid, path, basePath, cli, pg, fsys, sel, rm>>

NextRetry == CallRetry \/ FnSettles \/ SleepEnds \/ RetryReturns

SpecRetry == Init /\ [][NextRetry]_vars

\* The attempt count N the caller configured: options.attempts, else the
\* RETRY_ATTEMPTS setting, else the documented default.
ConfiguredAttempts(optAttempts, setting) ==
  IF optAttempts # Absent THEN optAttempts
  ELSE IF setting # Absent THEN setting
  ELSE DefaultRetryAttempts

\* C12: when every invocation of the operation failed with a transient error,
\* retry() propagates the error after exactly N+1 invocations, N being the
\* configured attempt count.
C12_InvokedNPlusOneTimes ==
  rt.st = "thrown" /\ rt.allTransient
    => rt.calls = ConfiguredAttempts(rt.optAttempts, rt.setting) + 1

\* ------------------------------------------------ lib/tasks.ts, called directly
\* sortTasksByUploadAndTime() and selectTasksForPurge() on an array the caller
\* owns.  Array.prototype.sort sorts in place and returns the same array, so
\* after either call the caller's array is the sorted one.
MaxTasks == 3
T4 == Task("t4", <<"v">>, 500, Absent, Absent, NoDestination)
TaskPool == {T1, T2, T3, T4}
TaskLists ==
  {l \in UNION {[1..k -> TaskPool] : k \in 0..MaxTasks} :
     \A i, j \in DOMAIN l : i # j => l[i] # l[j]}
SelectBudgets == {0, 20, 25, 30, 60}

\* The caller holds an array of tasks and a budget (in tenths of a GB).
InitTasks ==
  /\ \E tasks \in TaskLists, maxSize \in SelectBudgets :
       sel = [fn |-> "none", given |-> tasks, maxSize |-> maxSize,
              tasks |-> tasks, out |-> <<>>, again |-> <<>>]
  /\ rt = NoRetryCall
  /\ rm = NoRemoveCall
  /\ cli = NoCommand
  /\ fsys = NoFsCall
  /\ pg = [c \in Callers |-> NoPurge]
  /\ path = Root /\ basePath = Root
  /\ apiInfo = FALSE /\ sid = 0 /\ nextSid = 1
  /\ tasksMap = <<>>
  /\ authenticatePromise = 0 /\ getTasksPromise = 0
  /\ fl = [f \in Slots |-> FreeFlight]
  /\ cs = [c \in Callers |-> IdleCaller]

\* sortTasksByUploadAndTime(tasks)
CallSortTasks ==
  /\ sel.fn = "none"
  /\ LET sorted == sortTasksByUploadAndTime(sel.tasks)
     IN sel' = [sel EXCEPT !.fn = "sort", !.tasks = sorted, !.out = sorted]
  /\ UNCHANGED <<apiInfo, sid, tasksMap, authenticatePromise, getTasksPromise, fl, cs,
                 nextSid, path, basePath, cli, pg, fsys, rt, rm>>

\* selectTasksForPurge(tasks, maxSizeGB)
CallSelectTasks ==
  /\ sel.fn = "none"
  /\ sel' = [sel EXCEPT !.fn = "select",
                        !.tasks = sortTasksByUploadAndTime(sel.tasks),
                        !.out = selectTasksForPurge(sel.tasks, sel.maxSize)]
  /\ UNCHANGED <<apiInfo, sid, tasksMap, authenticatePromise, getTasksPromise, fl, cs,
                 nextSid, path, basePath, cli, pg, fsys, rt, rm>>

\* selectTasksForPurge(tasks, maxSizeGB) a second time, on the same array.
CallSelectAgain ==
  /\ sel.fn = "select"
  /\ sel' = [sel EXCEPT !.fn = "selectAgain",
                        !.tasks = sortTasksByUploadAndTime(sel.tasks),
                        !.again = selectTasksForPurge(sel.tasks, sel.maxSize)]
  /\ UNCHANGED <<apiInfo, sid, tasksMap, authenticatePromise, getTasksPromise, fl, cs,
                 nextSid, path, basePath, cli, pg, fsys, rt, rm>>

NextTasks == CallSortTasks \/ CallSelectTasks \/ CallSelectAgain

SpecTasks == InitTasks /\ [][NextTasks]_vars

\* The list is in ascending order of uploaded bytes, ties in ascending order of
\* completion time, a missing value counting as 0.
Ordered(l) ==
  \A i \in 1..(Len(l) - 1) :
    \/ OrZero(l[i].size_uploaded) < OrZero(l[i + 1].size_uploaded)
    \/ /\ OrZero(l[i].size_uploaded) = OrZero(l[i + 1].size_uploaded)
       /\ OrZero(l[i].completed_time) <= OrZero(l[i + 1].completed_time)

\* C13: the output of sortTasksByUploadAndTime() and of selectTasksForPurge() is
\* ordered by ascending uploaded bytes, then ascending completion time, with a
\* missing value treated as 0; the sort returns every task it was given.
C13_OutputOrdered ==
  /\ sel.fn # "none" => Ordered(sel.out)
  /\ sel.fn = "sort" =>
       /\ Len(sel.out) = Len(sel.given)
       /\ {sel.out[i] : i \in DOMAIN sel.out} = {sel.given[i] : i \in DOMAIN sel.given}

\* C13 witness: a selection of three tasks given out of order, among them a
\* tie on uploaded bytes and a task with both values missing.
C13_Witness ==
  /\ sel.fn = "select"
  /\ Len(sel.out) = 3
  /\ sel.out # sel.given
  /\ \E i \in DOMAIN sel.out : sel.out[i].size_uploaded = Absent
  /\ \E i \in 1..2 : OrZero(sel.out[i].size_uploaded) = OrZero(sel.out[i + 1].size_uploaded)

\* The first k elements of the list, and their cumulative size.
Prefix(l, k) == SubSeq(l, 1, k)
PrefixSize(l, k) == calculateTotalSize(Prefix(l, k))

\* maxSizeGB x 1,000,000,000 bytes, for a budget given in tenths of a GB, in
\* the model's unit of 10^6 bytes.
BudgetBytes(maxSizeTenths) == maxSizeTenths * 100

C15_NothingSelected ==
  sel.fn = "select" /\ (sel.maxSize = 0 \/ Len(sel.given) = 0) => sel.out = <<>>

\* The tasks of the list the selection left out, and their total size.
Retained(given, out) ==
  {given[i] : i \in DOMAIN given} \ {out[i] : i \in DOMAIN out}
RECURSIVE SizeOfSet(_)
SizeOfSet(S) ==
  IF S = {} THEN 0 ELSE LET t == CHOOSE x \in S : TRUE IN t.size + SizeOfSet(S \ {t})

\* C16: once the selected tasks are removed, the total size of the tasks that
\* were not selected is at or below the budget.
C16_RetainedWithinBudget ==
  sel.fn = "select" =>
    SizeOfSet(Retained(sel.given, sel.out)) <= BudgetBytes(sel.maxSize)

\* C17: selectTasksForPurge() is pure: a second call with the same list and
\* budget returns the same output, and a call leaves the caller's list as it
\* was, same elements in the same order.
C17_SelectorPure ==
  /\ sel.fn \in {"select", "selectAgain"} => sel.tasks = sel.given
  /\ sel.fn = "selectAgain" => sel.again = sel.out

\* The map holds exactly the tasks of the list, each under its id.
HoldsExactly(map, tasks) ==
  /\ DOMAIN map = {tasks[k].id : k \in DOMAIN tasks}
  /\ \A k \in DOMAIN tasks : map[tasks[k].id] = tasks[k]

\* A fetch of getTasks() ends successfully in this step.
FetchSucceeds(f) ==
  fl[f].kind = "tasks" /\ fl[f].st = "pending" /\ fl'[f].st = "fulfilled"

\* C18: the cache is replaced, never added to, and only by a successful fetch:
\* a step in which a fetch succeeds leaves exactly the tasks of that fetch in
\* the cache, and every other step (a failing fetch, a call, a resumption, any
\* other operation) leaves the cache as it was.  So the cache always holds
\* exactly the tasks of the most recent successful fetch.
C18_CacheIsLastFetch ==
  [][ /\ \A f \in Slots : FetchSucceeds(f) => HoldsExactly(tasksMap', fl'[f].tasks)
      /\ (\A f \in Slots : ~FetchSucceeds(f)) => tasksMap' = tasksMap ]_vars

\* C18 witness: a caller still holds the tasks an earlier fetch returned, a
\* later fetch returned the empty list, and the cache is empty.
C18_Witness ==
  \E c, d \in Callers :
    /\ cs[c].op = "getTasks" /\ cs[c].pc = "resolved" /\ Len(cs[c].tasks) > 0
    /\ cs[d].op = "getTasks" /\ cs[d].pc = "resolved" /\ Len(cs[d].tasks) = 0
    /\ cs[c].f # cs[d].f
    /\ DOMAIN tasksMap = {}

\* In this step a call sends the capability-discovery request: initialize()
\* by caller c, or a new authenticate() attempt that starts with discovery.
InitializeSendsDiscovery(c) ==
  cs[c].pc \in Idle /\ cs'[c].op = "initialize" /\ cs'[c].pc = "run"
AuthenticateSendsDiscovery(f) ==
  fl[f].st # "pending" /\ fl'[f].st = "pending" /\ fl'[f].stage = "query"

\* C19: once the capabilities are present, neither initialize() nor
\* authenticate() sends the discovery request again.
C19_DiscoveryAtMostOnce ==
  [][ apiInfo =>
        /\ \A c \in Callers : ~InitializeSendsDiscovery(c)
        /\ \A f \in Slots : ~AuthenticateSendsDiscovery(f) ]_vars

\* In this step caller c calls disconnect() / the disconnect() of c settles.
DisconnectCalled(c) == cs[c].pc \in Idle /\ cs'[c].op = "disconnect" /\ cs'[c] # cs[c]
DisconnectSettles(c) ==
  cs[c].op = "disconnect" /\ cs[c].pc = "run" /\ cs'[c].pc \in {"resolved", "rejected"}

\* C20: disconnect() on a client holding a session sends a logout for that
\* session and, when it settles, the client holds no session token, whatever
\* the logout request did; without a session it sends nothing and changes
\* nothing.
C20_DisconnectClearsSession ==
  [][ \A c \in Callers :
        /\ DisconnectCalled(c) /\ sid # 0 => cs'[c].pc = "run" /\ cs'[c].val = sid
        /\ DisconnectSettles(c) => sid' = 0
        /\ DisconnectCalled(c) /\ sid = 0 =>
             /\ cs'[c].pc = "resolved"
             /\ UNCHANGED <<apiInfo, sid, tasksMap, authenticatePromise, getTasksPromise>> ]_vars

\* C21, as stated: an authenticate() attempt that ended with an authentication
\* failure has issued exactly one login request.
C21_ExactlyOneRequestOnAuthFailure ==
  \A f \in Slots :
    fl[f].kind = "auth" /\ fl[f].st = "rejected" /\ fl[f].err = AuthFailed => fl[f].reqs = 1

\* An attempt answered with an authentication failure is settled at once.
C21_FailureSettles ==
  \A f \in Slots : fl[f].err = AuthFailed => fl[f].kind = "auth" /\ fl[f].st = "rejected"

\* The step that rejects the attempt counts the answered request, leaves the
\* session token alone and clears the marker; a rejected attempt is never
\* touched again; a caller handed it receives the authentication error.
C21_FailureStep ==
  /\ \A f \in Slots :
       /\ fl[f].st = "pending" /\ fl'[f].st = "rejected" /\ fl'[f].err = AuthFailed
            => /\ sid' = sid
               /\ fl'[f].reqs = fl[f].reqs + 1
               /\ fl'[f].reqs <= MaxRequests
               /\ authenticatePromise' = 0
       /\ fl[f].st = "rejected" /\ fl'[f].st = "rejected" => fl'[f] = fl[f]
  /\ \A c \in Callers :
       cs[c].op = "authenticate" /\ cs[c].pc = "await" /\ cs'[c].pc = "rejected"
         => cs'[c].err = fl[cs[c].f].err

\* C21, amended: a login response reporting a failure is never retried: the
\* attempt is rejected with the authentication error in the step that receives
\* it, no login request follows it, and the session token is unchanged.  The
\* requests before it may have thrown and been retried, so the attempt has
\* sent between 1 and (attempts+1)^2 login requests, the failed one last.
C21_AuthFailureNotRetried == [](C21_FailureSettles) /\ [][C21_FailureStep]_vars

\* C21 witness: a re-authentication failed on the answer to a retried request;
\* the caller holds the authentication error and the earlier token is still set.
C21_Witness ==
  \E c \in Callers :
    /\ cs[c].op = "authenticate" /\ cs[c].pc = "rejected" /\ cs[c].err = AuthFailed
    /\ fl[cs[c].f].reqs > 1
    /\ sid # 0

\* ------------------------------------------------------- removeTasksByIds()
\* removeTasksByIds(ids) called directly, next to a caller of getTasks(), on a
\* client that is fresh, authenticated, or disconnected again.
MaxIds == 2
IdLists ==
  {l \in UNION {[1..k -> AllIds] : k \in 0..MaxIds} :
     \A i, j \in DOMAIN l : i # j => l[i] # l[j]}
NoValidIds == "No valid task IDs found for the provided titles"

\* The two checks at the top of removeTasksByIds(): the error thrown, if any.
\* (RemovePrecondition_noSessionCheck: the same without the check of this.sid.)
RemovePrecondition_noSessionCheck(ids) == IF Len(ids) = 0 THEN NoValidIds ELSE NoError
RemovePrecondition(ids) ==
  IF Len(ids) = 0 THEN NoValidIds
  ELSE IF sid = 0 THEN NotAuthenticated
  ELSE NoError

InitRemove ==
  /\ \E s \in {0, 1}, discovered \in BOOLEAN, tasks \in RemoteLists :
       /\ s # 0 \/ Len(tasks) > 0 => discovered
       /\ sid = s /\ nextSid = s + 1 /\ apiInfo = discovered
       /\ tasksMap = TasksMapOf(tasks)
  /\ path = Root /\ basePath = Root
  /\ pg = [c \in Callers |-> NoPurge]
  /\ fsys = NoFsCall
  /\ rt = NoRetryCall
  /\ sel = NoSelectCall
  /\ rm = NoRemoveCall
  /\ cli = NoCommand
  /\ authenticatePromise = 0 /\ getTasksPromise = 0
  /\ fl = [f \in Slots |-> FreeFlight]
  /\ cs = [c \in Callers |-> IdleCaller]

\* removeTasksByIds(ids) up to its first suspension: a thrown precondition
\* error, or the delete request on its way.
CallRemoveTasksByIds ==
  /\ rm = NoRemoveCall
  /\ \E ids \in IdLists :
       LET e == RemovePrecondition(ids) IN
       rm' = [st |-> IF e = NoError THEN "pending" ELSE "rejected",
              ids |-> ids, err |-> e, outer |-> 0, inner |-> 0, reqs |-> 0,
              sentSid |-> IF e = NoError THEN sid ELSE 0, results |-> <<>>]
  /\ UNCHANGED <<apiInfo, sid, tasksMap, authenticatePromise, getTasksPromise, fl, cs,
                 nextSid, path, basePath, cli, pg, fsys, rt, sel>>

\* The cache after removeTasksByIds() has received its results: the method
\* returns them and never touches this.tasksMap.
\* (CacheAfterRemove_evicting: the tasks reported deleted are dropped from it.)
CacheAfterRemove_evicting(results) ==
  [i \in {j \in DOMAIN tasksMap :
            ~\E k \in DOMAIN results : results[k].id = j /\ results[k].error = 0}
     |-> tasksMap[i]]
CacheAfterRemove(results) == tasksMap

\* The delete request completes: a thrown error goes through the retry loops,
\* success = false makes the call throw, a result list is returned.
RemoveResponse ==
  /\ rm.st = "pending"
  /\ \/ \E e \in NetErrors :
          LET d == OnNetError("delete", rm, e) IN
          IF d.act = "retry"
            THEN rm' = [rm EXCEPT !.outer = d.outer, !.inner = d.inner, !.reqs = @ + 1]
            ELSE rm' = [rm EXCEPT !.st = "rejected", !.err = e, !.outer = 0, !.inner = 0,
                                  !.reqs = @ + 1]
     \/ rm' = [rm EXCEPT !.st = "rejected", !.err = DeleteFailed, !.outer = 0, !.inner = 0,
                         !.reqs = @ + 1]
     \/ \E results \in DeleteAnswers(rm.ids) :
          /\ rm' = [rm EXCEPT !.st = "resolved", !.results = results, !.outer = 0,
                              !.inner = 0, !.reqs = @ + 1]
          /\ tasksMap' = CacheAfterRemove(results)
  /\ rm'.st # "resolved" => UNCHANGED tasksMap
  /\ UNCHANGED <<apiInfo, sid, authenticatePromise, getTasksPromise, fl, cs,
                 nextSid, path, basePath, cli, pg, fsys, rt, sel>>

\* The caller has seen the outcome; a later call starts afresh.  When the
\* caller is removeTasksByTitles(), it returns the results or rethrows.
RemoveReturns ==
  /\ rm.st \in {"resolved", "rejected"}
  /\ rm' = NoRemoveCall
  /\ cs' = [c \in Callers |->
             IF cs[c].op = "removeTasksByTitles" /\ cs[c].pc = "run"
               THEN [cs[c] EXCEPT !.pc = rm.st, !.err = rm.err]
               ELSE cs[c]]
  /\ UNCHANGED <<apiInfo, sid, tasksMap, authenticatePromise, getTasksPromise, fl,
                 nextSid, path, basePath, cli, pg, fsys, rt, sel>>

NextRemove ==
  \/ CallRemoveTasksByIds \/ RemoveResponse \/ RemoveReturns
  \/ \E c \in Callers \ Purgers : CallGetTasks(c)
  \/ \E c \in Callers \ Purgers : CallerResume(c)
  \/ \E f \in Slots : ListResponse(f)

SpecRemove == InitRemove /\ [][NextRemove]_vars

\* In this step caller c calls getTasks() / removeTasksByIds() is called.
GetTasksCalled(c) == cs[c].pc \in Idle /\ cs'[c].op = "getTasks" /\ cs'[c] # cs[c]
RemoveCalled == rm = NoRemoveCall /\ rm' # NoRemoveCall

\* No promise of the client starts in this step (no request of an IIFE).
NoNewFlight == \A f \in Slots : fl'[f].st = "pending" => fl[f].st = "pending"

\* A delete request is in flight only for a non-empty id list, under the
\* session the client held when it was sent; a precondition error has sent none.
C22_NoRequestWithoutSession ==
  /\ rm.st = "pending" => rm.sentSid # 0 /\ Len(rm.ids) > 0
  /\ rm.st = "rejected" /\ rm.err \in {NotAuthenticated, NoValidIds} => rm.reqs = 0

C22_PreconditionStep ==
  /\ \A c \in Callers :
       GetTasksCalled(c) /\ sid = 0
         => /\ cs'[c].pc = "rejected" /\ cs'[c].err = NotAuthenticated
            /\ NoNewFlight
            /\ UNCHANGED <<sid, tasksMap, getTasksPromise, rm>>
  /\ RemoveCalled /\ Len(rm'.ids) = 0
       => /\ rm'.st = "rejected" /\ rm'.err = NoValidIds /\ rm'.reqs = 0
          /\ UNCHANGED <<sid, tasksMap, fl>>
  /\ RemoveCalled /\ Len(rm'.ids) > 0 /\ sid = 0
       => /\ rm'.st = "rejected" /\ rm'.err = NotAuthenticated /\ rm'.reqs = 0
          /\ UNCHANGED <<sid, tasksMap, fl>>

C23_EveryPlannedDeletionAttempted ==
  \A c \in Purgers :
    pg[c].stage \in {"fs", "done"} /\ ~pg[c].dryRun /\ Len(pg[c].fetched) > 0
      => /\ Len(pg[c].fs) = Len(pg[c].planned)
         /\ \A i \in DOMAIN pg[c].fs :
              /\ pg[c].fs[i].item = pg[c].planned[i]
              /\ pg[c].fs[i].verdict = Accepted => pg[c].fs[i].removed # NotRemoved
              /\ pg[c].fs[i].verdict # Accepted => pg[c].fs[i].st = "rejected"
         /\ pg[c].stage = "fs" => cs[c].pc = "run"
         /\ pg[c].stage = "done" =>
              /\ AllSettled(pg[c].fs)
              /\ cs[c].pc = "resolved"
              /\ pg[c].result.dryRun = FALSE /\ pg[c].result.successfulCount # Absent

\* C23 witness: a purge has returned after a phase 2 of three planned paths in
\* which the first removal failed in the filesystem, the second path was
\* refused by the validation, and the third removal succeeded.
C23_Witness ==
  \E c \in Purgers :
    /\ pg[c].stage = "done" /\ ~pg[c].dryRun /\ cs[c].pc = "resolved"
    /\ Len(pg[c].planned) = 3 /\ Len(pg[c].fs) = 3
    /\ pg[c].fs[1].verdict = Accepted /\ pg[c].fs[1].st = "rejected"
    /\ pg[c].fs[2].verdict # Accepted /\ pg[c].fs[2].st = "rejected"
    /\ pg[c].fs[3].verdict = Accepted /\ pg[c].fs[3].st = "fulfilled"

\* The four properties of a purge result: it lists every selected task, its
\* total is the sum of their sizes, its counts are present and add up to the
\* number of remote delete results, and its message is the partial-success one
\* exactly when failedCount > 0 and the plain one exactly when failedCount = 0.
FinalResultShape(p) ==
  /\ p.result.tasksToPurge = p.tasksToPurge
  /\ p.result.totalSize = SizeOfSet({p.tasksToPurge[i] : i \in DOMAIN p.tasksToPurge})
  /\ p.result.successfulCount # Absent /\ p.result.failedCount # Absent
  /\ p.result.successfulCount + p.result.failedCount = Len(p.deleteResults)
  /\ p.result.message = "Purge completed with partial success" <=> p.result.failedCount > 0
  /\ p.result.message = "Purge completed" <=> p.result.failedCount = 0

\* C24 as stated: every result a non-dry-run purge returns has that shape.
C24_EveryRealResultHasCounts ==
  \A c \in Purgers :
    pg[c].stage = "done" /\ ~pg[c].dryRun => FinalResultShape(pg[c])

\* C24: the result of a non-dry-run purge of a non-empty task list lists all
\* selected tasks, totals their sizes, has counts that add up to the number of
\* remote delete results, and carries the partial-success message exactly when
\* failedCount > 0 and the plain one exactly when failedCount = 0; the result
\* for an empty task list is the bare "No torrents to purge." one, without
\* counts.
C24_FinalResultShape ==
  \A c \in Purgers :
    pg[c].stage = "done" /\ ~pg[c].dryRun =>
      IF Len(pg[c].fetched) = 0
        THEN /\ pg[c].result = EmptyResult
             /\ pg[c].delReqs = 0
        ELSE FinalResultShape(pg[c])

\* C24 witness: a purge has returned after a phase 1 in which one of three
\* selected tasks failed remotely and the other two were deleted.
C24_Witness ==
  \E c \in Purgers :
    /\ pg[c].stage = "done" /\ ~pg[c].dryRun
    /\ Len(pg[c].result.tasksToPurge) = 3
    /\ pg[c].result.successfulCount = 2 /\ pg[c].result.failedCount = 1
    /\ pg[c].result.message = "Purge completed with partial success"

\* C25: every removal phase 2 of a purge issues targets the own entry of a
\* fetched task with that destination, the root joined with the task's
\* destination and its title; neither the destination directory itself nor
\* anything else in it is the target of a removal.
C25_OnlyOwnEntryRemoved ==
  \A c \in Purgers :
    pg[c].stage \in {"fs", "done"} /\ ~pg[c].dryRun =>
      \A i \in DOMAIN pg[c].fs :
        pg[c].fs[i].removed # NotRemoved =>
          \E k \in DOMAIN pg[c].fetched :
            /\ pg[c].fetched[k].destination = pg[c].fs[i].item
            /\ pg[c].fs[i].removed =
                 join(<<path, pg[c].fetched[k].destination, pg[c].fetched[k].title>>)

\* C30: no removal issued by a purge targets the configured root itself: every
\* removed path is a strict descendant of the root, whatever destination the
\* remotely deleted task carries, the empty string included.
C30_RootNeverRemoved ==
  \A c \in Purgers :
    pg[c].stage \in {"fs", "done"} /\ ~pg[c].dryRun =>
      \A i \in DOMAIN pg[c].fs :
        pg[c].fs[i].removed # NotRemoved =>
          /\ pg[c].fs[i].removed # path
          /\ startsWith(pg[c].fs[i].removed, Append(path, Slash))
          /\ Len(pg[c].fs[i].removed) > Len(path) + 1

\* C27: the local deletions of phase 2 are those of the snapshot the purge
\* selected from: every task of that snapshot which the remote side reports
\* deleted and which has a destination has that destination among the paths
\* attempted, whatever getTasks() calls completed on the client since the fetch.
C27_PhaseTwoFromPurgeSnapshot ==
  \A c \in Purgers :
    pg[c].stage \in {"fs", "done"} /\ ~pg[c].dryRun =>
      \A i \in DOMAIN pg[c].deleteResults, k \in DOMAIN pg[c].fetched :
        /\ pg[c].deleteResults[i].error = 0
        /\ pg[c].deleteResults[i].id = pg[c].fetched[k].id
        /\ pg[c].fetched[k].destination # NoDestination
        => \E j \in DOMAIN pg[c].fs : pg[c].fs[j].item = pg[c].fetched[k].destination

\* --------------------------------------------- failure of a shared attempt
\* Every caller holding a rejected authenticate() or getTasks() promise is
\* still waiting for it or has been rejected with the promise's own reason.
C28_SameFailure ==
  \A f \in Slots, c \in Callers :
    /\ fl[f].st = "rejected" /\ fl[f].kind \in {"auth", "tasks"}
    /\ cs[c].op \in {"authenticate", "getTasks"} /\ cs[c].f = f
    => /\ cs[c].pc \in {"await", "rejected"}
       /\ cs[c].pc = "rejected" => cs[c].err = fl[f].err

\* The step in which a shared attempt fails writes neither the session token
\* nor the cache; the step in which a caller holding the failed promise
\* resumes rejects that caller with the same reason, sends nothing, starts no
\* attempt and writes neither the session token nor the cache.
C28_FailureSteps ==
  /\ \A f \in Slots :
       fl[f].st = "pending" /\ fl'[f].st = "rejected"
         => sid' = sid /\ tasksMap' = tasksMap
  /\ \A c \in Callers :
       /\ cs[c].op \in {"authenticate", "getTasks"} /\ cs[c].pc = "await"
       /\ fl[cs[c].f].st = "rejected" /\ cs'[c] # cs[c]
       => /\ cs'[c].pc = "rejected" /\ cs'[c].err = fl[cs[c].f].err
          /\ fl' = fl
          /\ sid' = sid /\ tasksMap' = tasksMap
          /\ authenticatePromise' = authenticatePromise
          /\ getTasksPromise' = getTasksPromise

\* C28: when a shared authenticate() or getTasks() attempt fails, every caller
\* that joined it receives that same failure, none of them sends a request or
\* starts an attempt of its own on that account, and the session token and the
\* cache are left as they were.
C28_JoinedCallersShareFailure == [](C28_SameFailure) /\ [][C28_FailureSteps]_vars

\* C28 witness: two callers rejected by the same failed login attempt, the
\* client still without a session.
C28_Witness ==
  \E c, d \in Callers :
    /\ c # d
    /\ cs[c].op = "authenticate" /\ cs[c].pc = "rejected"
    /\ cs[d].op = "authenticate" /\ cs[d].pc = "rejected"
    /\ cs[c].f = cs[d].f /\ cs[c].f # 0
    /\ fl[cs[c].f].st = "rejected" /\ fl[cs[c].f].err = AuthFailed
    /\ cs[c].err = AuthFailed /\ cs[d].err = AuthFailed
    /\ sid = 0

\* C29: whenever the client's session token is cleared, the token cleared is
\* the one the logout request of that disconnect() was sent for: no session id
\* a login stored is dropped without a logout request for it.
C29_ClearsOnlyLoggedOutToken ==
  [][ sid # 0 /\ sid' = 0 =>
        \E c \in Callers :
          /\ DisconnectSettles(c)
          /\ cs[c].val = sid ]_vars

\* ---------------------------------------------------- the client as a whole
\* removeTasksByTitles(titles): the title lists it is called with (the titles
\* of two listed tasks and one no task has).
TitleLists ==
  {l \in UNION {[1..k -> {<<"x">>, <<"y">>, <<"n">>}] : k \in 1..MaxIds} :
     \A i, j \in DOMAIN l : i # j => l[i] # l[j]}

\* The ids of the first task carrying each title, titles without a task dropped.
IdsOfTitles(tasks, titleList) ==
  LET found == SelectSeq(titleList, LAMBDA t : \E k \in DOMAIN tasks : tasks[k].title = t)
  IN [i \in DOMAIN found |->
        tasks[CHOOSE k \in DOMAIN tasks :
                /\ tasks[k].title = found[i]
                /\ \A j \in DOMAIN tasks : tasks[j].title = found[i] => k <= j].id]

\* removeTasksByTitles(titles), up to its first suspension: the getTasks()
\* call it awaits.
CallRemoveTasksByTitles(c) ==
  /\ cs[c].pc \in Idle
  /\ rm = NoRemoveCall
  /\ \E titleList \in TitleLists :
       IF sid = 0
         THEN /\ cs' = [cs EXCEPT ![c] = [IdleCaller EXCEPT !.op = "removeTasksByTitles",
                                           !.pc = "rejected", !.err = NotAuthenticated]]
              /\ fl' = Collect(fl, cs')
              /\ UNCHANGED <<getTasksPromise, rm>>
       ELSE
         /\ rm' = [st |-> "titles", titles |-> titleList]
         /\ IF TasksInFlight
              THEN /\ cs' = [cs EXCEPT ![c] = [IdleCaller EXCEPT !.op = "removeTasksByTitles",
                                                !.pc = "await", !.f = getTasksPromise]]
                   /\ fl' = Collect(fl, cs')
                   /\ UNCHANGED getTasksPromise
              ELSE LET f == NewSlot(c) IN
                   /\ cs' = [cs EXCEPT ![c] = [IdleCaller EXCEPT !.op = "removeTasksByTitles",
                                                !.pc = "await", !.f = f]]
                   /\ fl' = Collect([fl EXCEPT ![f] = NewFlight("tasks", "list")], cs')
                   /\ getTasksPromise' = f
  /\ UNCHANGED <<apiInfo, sid, tasksMap, authenticatePromise, nextSid,
                 path, basePath, cli, pg, fsys, rt, sel>>

\* removeTasksByTitles() resumes after getTasks(): a failed fetch is rethrown;
\* else the titles are mapped to ids, no id at all is an error, and the ids
\* are handed to removeTasksByIds(), whose own checks come first.
TitlesAfterFetch(c) ==
  /\ cs[c].op = "removeTasksByTitles" /\ cs[c].pc = "await"
  /\ fl[cs[c].f].st # "pending"
  /\ LET f == cs[c].f
         ids == IdsOfTitles(fl[f].tasks, rm.titles)
         e == IF fl[f].st = "rejected" THEN fl[f].err
              ELSE IF Len(ids) = 0 THEN NoValidIds
              ELSE RemovePrecondition(ids)
     IN IF e # NoError
          THEN /\ cs' = [cs EXCEPT ![c].pc = "rejected", ![c].err = e]
               /\ rm' = NoRemoveCall
          ELSE /\ cs' = [cs EXCEPT ![c].pc = "run"]
               /\ rm' = [st |-> "pending", ids |-> ids, err |-> NoError, outer |-> 0,
                         inner |-> 0, reqs |-> 0, sentSid |-> sid, results |-> <<>>]
  /\ UNCHANGED <<apiInfo, sid, tasksMap, authenticatePromise, getTasksPromise, fl, nextSid,
                 path, basePath, cli, pg, fsys, rt, sel>>

\* The caller has seen the outcome of its call: nothing of the call is left
\* but what it wrote to the client.
OperationReturns(c) ==
  /\ cs[c].op # "none" /\ cs[c].pc \in {"resolved", "rejected"}
  /\ cs' = [cs EXCEPT ![c] = IdleCaller]
  /\ fl' = Collect(fl, cs')
  /\ pg' = [pg EXCEPT ![c] = NoPurge]
  /\ UNCHANGED <<apiInfo, sid, tasksMap, authenticatePromise, getTasksPromise, nextSid,
                 path, basePath, cli, fsys, rt, sel, rm>>

\* Every public operation on one client, one call after the other: a call
\* starts once the call before it has returned.
Quiet ==
  rm = NoRemoveCall /\ \A c \in Callers : cs[c] = IdleCaller /\ pg[c] = NoPurge

NextClient ==
  \/ \E c \in Purgers : Quiet /\ CallAuthenticate(c)
  \/ \E c \in Purgers : Quiet /\ CallDisconnect(c)
  \/ \E c \in Purgers : Quiet /\ CallGetTasks(c)
  \/ \E c \in Purgers : Quiet /\ CallPurge(c)
  \/ \E c \in Purgers : Quiet /\ CallRemoveTasksByTitles(c)
  \/ Quiet /\ CallRemoveTasksByIds
  \/ \E c \in Purgers : LogoutResponse(c)
  \/ \E f \in Slots : AuthDiscoveryResponse(f)
  \/ \E f \in Slots : LoginResponse(f)
  \/ \E c \in Purgers : CallerResume(c)
  \/ \E f \in Slots : ListResponse(f)
  \/ \E c \in Purgers : PurgeAfterFetch(c)
  \/ \E c \in Purgers : DeleteResponse(c)
  \/ \E c \in Purgers : FsResult(c)
  \/ \E c \in Purgers : TitlesAfterFetch(c)
  \/ RemoveResponse \/ RemoveReturns
  \/ \E c \in Purgers : OperationReturns(c)

SpecClient == Init /\ [][NextClient]_vars

\* In this step a login of authenticate() stores its session id / a list
\* fetch of getTasks() stores its cache.
LoginStores ==
  \E f \in Slots :
    /\ fl[f].kind = "auth" /\ fl[f].st = "pending" /\ fl'[f].st = "fulfilled"
    /\ sid' = fl'[f].val /\ sid' # 0
FetchStores ==
  \E f \in Slots :
    /\ fl[f].kind = "tasks" /\ fl[f].st = "pending" /\ fl'[f].st = "fulfilled"
    /\ tasksMap' = TasksMapOf(fl'[f].tasks)

\* In this step the call of `op` by caller c moves on, or a promise of `kind`.
OperationSteps(op) == \E c \in Callers : cs'[c] # cs[c] /\ op \in {cs[c].op, cs'[c].op}
PromiseSteps(kind) == \E f \in Slots : fl'[f] # fl[f] /\ kind \in {fl[f].kind, fl'[f].kind}

\* C26: the session token changes only in the step in which a login of
\* authenticate() stores it or a disconnect() settles and clears it, and the
\* task cache only in the step in which a list fetch of getTasks() stores it;
\* no step of getTasks, removeTasksByIds, removeTasksByTitles or
\* purgeTasksBySize changes the session token, and no step of authenticate,
\* disconnect or removeTasksByIds changes the task cache.
C26_OnlyOwnersWrite ==
  [][ /\ sid' # sid => LoginStores \/ (sid' = 0 /\ \E c \in Callers : DisconnectSettles(c))
      /\ tasksMap' # tasksMap => FetchStores
      /\ \/ PromiseSteps("tasks") \/ rm' # rm \/ pg' # pg
         \/ OperationSteps("getTasks") \/ OperationSteps("removeTasksByTitles")
         \/ OperationSteps("purge")
         => sid' = sid
      /\ \/ PromiseSteps("auth") \/ rm' # rm
         \/ OperationSteps("authenticate") \/ OperationSteps("disconnect")
         => tasksMap' = tasksMap ]_vars

\* C26 witness: removeTasksByIds() has returned results that report a task
\* deleted, on a client that still holds its session and still has that task
\* in the cache.
C26_Witness ==
  /\ rm.st = "resolved" /\ sid # 0
  /\ \E k \in DOMAIN rm.results :
       rm.results[k].error = 0 /\ rm.results[k].id \in DOMAIN tasksMap

\* C31: every path phase 2 of a purge attempts is the destination of a task of
\* that purge's selection, whatever ids the remote delete response carries.
C31_OnlySelectedDestinations ==
  \A c \in Purgers :
    pg[c].stage \in {"fs", "done"} /\ ~pg[c].dryRun =>
      \A i \in DOMAIN pg[c].fs :
        \E k \in DOMAIN pg[c].tasksToPurge :
          pg[c].tasksToPurge[k].destination = pg[c].fs[i].item

\* C32: a purge whose remote delete failed as a whole, by a response with
\* success = false or by a request that still throws after its retries, has
\* rejected with that error and has attempted no local deletion.
C32_FailedDeleteStopsPurge ==
  \A c \in Purgers :
    pg[c].stage # "none" /\ pg[c].delErr # NoError =>
      /\ pg[c].stage = "failed" /\ pg[c].delReqs > 0
      /\ cs[c].op = "purge" /\ cs[c].pc = "rejected" /\ cs[c].err = pg[c].delErr
      /\ pg[c].fs = <<>> /\ pg[c].planned = <<>>
      /\ pg[c].result = NoResult

\* C32 witness: a purge has rejected after the delete request was retried and
\* threw again on its last attempt.
C32_Witness ==
  \E c \in Purgers :
    /\ pg[c].stage = "failed" /\ pg[c].delReqs = MaxRequests
    /\ pg[c].delErr = RequestTimeout
    /\ cs[c].pc = "rejected" /\ cs[c].err = RequestTimeout
    /\ pg[c].fs = <<>>

\* ------------------------------------------------------ a failing getTasks()
\* A caller of getTasks() rejected by a fetch holds the error of that fetch.
C33_FailureRaised ==
  /\ \A f \in Slots :
       fl[f].kind = "tasks" /\ fl[f].st = "rejected" => fl[f].err \in NetErrors \cup {ListFailed}
  /\ \A c \in Callers :
       cs[c].op = "getTasks" /\ cs[c].pc = "rejected" /\ cs[c].f # 0
         => cs[c].err = fl[cs[c].f].err

\* From the start of a fetch to its failure no step writes the cache: a step
\* that leaves a pending fetch unfulfilled, the one in which it fails
\* included, leaves the cache as it is.
C33_CacheKept ==
  \A f \in Slots :
    fl[f].kind = "tasks" /\ fl[f].st = "pending" /\ fl'[f].st # "fulfilled"
      => tasksMap' = tasksMap

\* C33: a getTasks() call that fails, by a response with success = false or by
\* an exception left after the retries, raises that error to its caller and
\* leaves the task cache exactly as it was before the call.
C33_FailedFetchKeepsCache == [](C33_FailureRaised) /\ [][C33_CacheKept]_vars

\* C33 witness: with a filled cache, one getTasks() was rejected by a response
\* with success = false and another by a timeout left after the retries.
C33_Witness ==
  \E c, d \in Callers :
    /\ cs[c].op = "getTasks" /\ cs[c].pc = "rejected" /\ cs[c].err = ListFailed
    /\ cs[d].op = "getTasks" /\ cs[d].pc = "rejected" /\ cs[d].err = RequestTimeout
    /\ DOMAIN tasksMap # {}

\* ------------------------------------------------------- the retry budget
\* C34: with N configured retry attempts, one getTasks() or authenticate()
\* call whose remote request fails permanently with a transient error has sent
\* that request at most N + 1 times when the error reaches the caller.
C34_AtMostAttemptsPlusOneRequests ==
  \A f \in Slots :
    fl[f].st = "rejected" /\ isTransientError(fl[f].err) => fl[f].reqs <= RetryAttempts + 1

\* ---------------------------------------------------------- retry(), outcomes
\* The predicate rejected the error of the first invocation: retry() has
\* thrown that error after that one invocation.
C35_RejectedErrorNotRetried ==
  rt.st # "none" /\ rt.firstErr # NoError /\ ~shouldRetry(rt.pred, rt.firstErr)
    => rt.st = "thrown" /\ rt.calls = 1 /\ rt.raised = rt.firstErr

\* retry() has returned: its value is the one the last invocation returned.
C35_ReturnsTheValue ==
  rt.st = "returned" => rt.value = rt.fnValue /\ rt.value \in FnValues /\ rt.raised = NoError

\* retry() has failed: the error it raised is the error of the last invocation.
C35_RaisesTheLastError ==
  rt.st = "thrown" => rt.raised = rt.err /\ rt.raised \in NetErrors

\* Once an invocation has succeeded or retry() has thrown, the operation is
\* not invoked again in that call.
C35_NoFurtherInvocation ==
  rt.st \in {"returned", "thrown"} => rt'.st = "none"

\* C35: retry() invokes the operation exactly once and rethrows the same error
\* when the predicate rejects the error; it returns the operation's value with
\* no further invocation as soon as one invocation succeeds; and whenever it
\* fails, the error it raises is the error of the last invocation.
C35_RetryOutcomes ==
  /\ [](C35_RejectedErrorNotRetried /\ C35_ReturnsTheValue /\ C35_RaisesTheLastError)
  /\ [][C35_NoFurtherInvocation]_vars

\* C35 witness: a retry() with a predicate of the caller's that has thrown,
\* after more than one invocation, an error other than the one of its first
\* invocation.
C35_Witness ==
  /\ rt.st = "thrown" /\ rt.pred = "custom" /\ rt.calls > 1
  /\ rt.raised = RequestTimeout /\ rt.firstErr = NonJsonResponse

\* ------------------------------------------------------- retry(), the delays
\* C36: the delay retry() waits before retry number k (k = 0 for the first
\* retry; rt.attempt while it sleeps) is at least base x 2^k and at most
\* 1.1 x base x 2^k, base being the base delay retry() works with, so each
\* delay is strictly longer than the one before it.
C36_DelayBounds ==
  rt.st = "sleeping" =>
    /\ rt.delay >= rt.baseDelay * Pow2(rt.attempt) * TicksPerMs
    /\ 10 * rt.delay <= 11 * rt.baseDelay * Pow2(rt.attempt) * TicksPerMs
    /\ rt.prevDelay # Absent => rt.delay > rt.prevDelay

\* C36 witness: retry() sleeps before its third retry, with a delay above the
\* lower bound, after a second delay that was above its lower bound too.
C36_Witness ==
  /\ rt.st = "sleeping" /\ rt.attempt = 2
  /\ rt.delay > rt.baseDelay * Pow2(2) * TicksPerMs
  /\ rt.prevDelay > rt.baseDelay * Pow2(1) * TicksPerMs

\* -------------------------------------------------------------------- api()
\* api(path, params): retry() around one HTTP request.  Each invocation arms a
\* timer that aborts the fetch, awaits fetch() (the response headers), clears
\* the timer, and then awaits response.text() (the body).  Time is counted in
\* seconds since the request was sent.
TimeoutSeconds == 30
MaxOverrun == 2
MaxElapsed == TimeoutSeconds + MaxOverrun

\* const controller = new AbortController(); const timeoutId = setTimeout(...)
NewRequest == [phase |-> "fetch", timer |-> "armed", elapsed |-> 0]

\* api() is called: retry() with no options invokes the request closure.
CallApi ==
  /\ rt = NoRetryCall
  /\ \E setting \in AttemptSettings :
       rt' = [st |-> "invoked", optAttempts |-> Absent, setting |-> setting,
              attempts |-> resolveAttempts(Absent, setting),
              pred |-> "default", attempt |-> 0, calls |-> 1, allTransient |-> TRUE,
              err |-> NoError, firstErr |-> NoError, raised |-> NoError,
              fnValue |-> Absent, value |-> Absent,
              baseDelay |-> resolveDelay(Absent, Absent),
              delay |-> Absent, prevDelay |-> Absent,
              req |-> NewRequest]
  /\ UNCHANGED <<apiInfo, sid, tasksMap, authenticatePromise, getTasksPromise, fl, cs,
                 nextSid, path, basePath, cli, pg, fsys, sel, rm>>

\* A second passes while the request is awaited.  An armed timer fires when its
\* time has come, so no time passes beyond it while it is armed.
TimePasses ==
  /\ rt.st = "invoked"
  /\ rt.req.elapsed < MaxElapsed
  /\ ~(rt.req.timer = "armed" /\ rt.req.elapsed >= TimeoutSeconds)
  /\ rt' = [rt EXCEPT !.req.elapsed = @ + 1]
  /\ UNCHANGED <<apiInfo, sid, tasksMap, authenticatePromise, getTasksPromise, fl, cs,
                 nextSid, path, basePath, cli, pg, fsys, sel, rm>>

\* The timer fires: controller.abort() rejects the pending fetch with an
\* AbortError, the catch block turns it into Error("Request timeout"), and the
\* catch block of retry() takes it from there.
TimerFires ==
  /\ rt.st = "invoked"
  /\ rt.req.timer = "armed" /\ rt.req.phase = "fetch"
  /\ rt.req.elapsed >= TimeoutSeconds
  /\ \E r \in DrawsFor(rt, RequestTimeout) :
       rt' = RetryCatches([rt EXCEPT !.req.timer = "fired", !.req.phase = "aborted"],
                          RequestTimeout, r)
  /\ UNCHANGED <<apiInfo, sid, tasksMap, authenticatePromise, getTasksPromise, fl, cs,
                 nextSid, path, basePath, cli, pg, fsys, sel, rm>>

\* fetch() resolves with the response: clearTimeout(timeoutId), then the body
\* is awaited.
HeadersArrive ==
  /\ rt.st = "invoked"
  /\ rt.req.phase = "fetch"
  /\ rt' = [rt EXCEPT !.req.phase = "body", !.req.timer = "cleared"]
  /\ UNCHANGED <<apiInfo, sid, tasksMap, authenticatePromise, getTasksPromise, fl, cs,
                 nextSid, path, basePath, cli, pg, fsys, sel, rm>>

\* response.text() resolves: the text parses and the closure returns, or it
\* does not and the closure throws.
BodyArrives ==
  /\ rt.st = "invoked"
  /\ rt.req.phase = "body"
  /\ \/ \E v \in FnValues :
          rt' = [rt EXCEPT !.st = "returned", !.fnValue = v, !.value = ReturnOfRetry(v),
                           !.req.phase = "read"]
     \/ \E r \in DrawsFor(rt, NonJsonResponse) :
          rt' = RetryCatches([rt EXCEPT !.req.phase = "read"], NonJsonResponse, r)
  /\ UNCHANGED <<apiInfo, sid, tasksMap, authenticatePromise, getTasksPromise, fl, cs,
                 nextSid, path, basePath, cli, pg, fsys, sel, rm>>

\* The sleep before a retry ends: the closure is invoked again, a new request.
ApiSleepEnds ==
  /\ rt.st = "sleeping"
  /\ rt' = [rt EXCEPT !.st = "invoked", !.attempt = @ + 1, !.calls = @ + 1,
                      !.req = NewRequest]
  /\ UNCHANGED <<apiInfo, sid, tasksMap, authenticatePromise, getTasksPromise, fl, cs,
                 nextSid, path, basePath, cli, pg, fsys, sel, rm>>

NextApi == CallApi \/ TimePasses \/ TimerFires \/ HeadersArrive \/ BodyArrives
             \/ ApiSleepEnds \/ RetryReturns

SpecApi == Init /\ [][NextApi]_vars

\* C37: a remote request that exceeds the request timeout is cancelled and
\* surfaces a timeout error: no request is still awaited after more than the
\* timeout, and a request of that age has been aborted with the timeout error.
C37_OverdueRequestCancelled ==
  /\ rt.st = "invoked" => rt.req.elapsed <= TimeoutSeconds
  /\ rt.st # "none" /\ rt.req.elapsed >= TimeoutSeconds /\ rt.st # "invoked"
       => rt.req.phase = "aborted" /\ rt.err = RequestTimeout

\* ------------------------------------------------ CLIHandler.executeCommand()
\* One CLIHandler, the only user of its client, running one command after
\* another.  cli.caught is the error the catch block logged and rethrew,
\* cli.err the error that left executeCommand().

\* What the handler of an action may throw: an unknown action always throws;
\* the handlers of the known ones throw what the client's calls throw.
CommandErrors(action) ==
  IF action = "bogus" THEN {"Unknown action"} ELSE {NoError, ListFailed, RequestTimeout}

\* The catch block (if an error was thrown) and the finally block, up to the
\* first suspension of disconnect(): with a session s and capabilities the
\* logout request is on its way; else disconnect() returns at once and
\* executeCommand() ends, throwing what was caught.
EnterFinally(caught, s, info) ==
  [cli EXCEPT !.caught = caught,
              !.disconnects = @ + 1,
              !.pc = IF s # 0 /\ info THEN "logout" ELSE "done",
              !.outcome = IF s # 0 /\ info THEN "none"
                          ELSE IF caught = NoError THEN "returned" ELSE "thrown",
              !.err = IF s # 0 /\ info THEN NoError ELSE caught]

\* executeCommand(action, arg), up to the await of this.ds.authenticate().
ExecuteCommand ==
  /\ cli.pc = "idle"
  /\ \E action \in {"list", "remove", "purge", "info", "bogus"} :
       cli' = [pc |-> "authenticate", action |-> action, caught |-> NoError,
               disconnects |-> 0, outcome |-> "none", err |-> NoError]
  /\ UNCHANGED <<apiInfo, sid, tasksMap, authenticatePromise, getTasksPromise, fl, cs,
                 nextSid, path, basePath, pg, fsys, rt, sel, rm>>

\* authenticate() settles: the discovery it needed failed, or the login was
\* answered with a session id, or the login failed.  On success the switch
\* calls the handler of the action.
AuthenticateSettles ==
  /\ cli.pc = "authenticate"
  /\ \/ /\ ~apiInfo
        /\ \E e \in NetErrors \cup {DiscoveryFailed} : cli' = EnterFinally(e, sid, apiInfo)
        /\ UNCHANGED <<apiInfo, sid, nextSid>>
     \/ /\ nextSid <= MaxSessions
        /\ apiInfo' = TRUE /\ sid' = nextSid /\ nextSid' = nextSid + 1
        /\ cli' = [cli EXCEPT !.pc = "command"]
     \/ /\ apiInfo' = TRUE
        /\ \E e \in NetErrors \cup {AuthFailed} : cli' = EnterFinally(e, sid, TRUE)
        /\ UNCHANGED <<sid, nextSid>>
  /\ UNCHANGED <<tasksMap, authenticatePromise, getTasksPromise, fl, cs,
                 path, basePath, pg, fsys, rt, sel, rm>>

\* The handler of the action returns or throws (the default branch throws at
\* once).
CommandSettles ==
  /\ cli.pc = "command"
  /\ \E e \in CommandErrors(cli.action) : cli' = EnterFinally(e, sid, apiInfo)
  /\ UNCHANGED <<apiInfo, sid, tasksMap, authenticatePromise, getTasksPromise, fl, cs,
                 nextSid, path, basePath, pg, fsys, rt, sel, rm>>

\* The logout of disconnect() settles, inside the finally block: answered, the
\* token is cleared and executeCommand() ends as the try block left it; thrown,
\* the token stays and the error leaves the finally block.
LogoutSettles ==
  /\ cli.pc = "logout"
  /\ \/ /\ sid' = 0
        /\ cli' = [cli EXCEPT !.pc = "done",
                              !.outcome = IF cli.caught = NoError THEN "returned" ELSE "thrown",
                              !.err = cli.caught]
     \/ /\ \E e \in NetErrors :
             cli' = [cli EXCEPT !.pc = "done", !.outcome = "thrown", !.err = e]
        /\ UNCHANGED sid
  /\ UNCHANGED <<apiInfo, tasksMap, authenticatePromise, getTasksPromise, fl, cs,
                 nextSid, path, basePath, pg, fsys, rt, sel, rm>>

\* The caller has seen the outcome; the handler is free for its next command.
ExecuteCommandReturns ==
  /\ cli.pc = "done"
  /\ cli' = NoCommand
  /\ UNCHANGED <<apiInfo, sid, tasksMap, authenticatePromise, getTasksPromise, fl, cs,
                 nextSid, path, basePath, pg, fsys, rt, sel, rm>>

NextCli == ExecuteCommand \/ AuthenticateSettles \/ CommandSettles \/ LogoutSettles
             \/ ExecuteCommandReturns

SpecCli == Init /\ [][NextCli]_vars

\* C38: every executeCommand() call ends with a disconnect() of the session,
\* whether authentication or the command succeeded or failed, and when the
\* command fails the error reaching the caller is the command's own error.
C38_DisconnectsAndKeepsError ==
  cli.pc = "done" =>
    /\ cli.disconnects = 1
    /\ cli.caught # NoError => cli.outcome = "thrown" /\ cli.err = cli.caught

\* ------------------------------------------------- capabilities before token
\* A step that stores a session token is taken with the capabilities present,
\* and no step drops the capabilities.
C39_ReadyBeforeAuthenticated ==
  /\ sid' # sid /\ sid' # 0 => apiInfo
  /\ apiInfo => apiInfo'

\* C39: in every state reachable through initialize(), authenticate() and
\* disconnect(), in any order and interleaving and with any remote outcomes, a
\* stored session token implies that the capabilities are present: the client
\* is never Authenticated without having passed through Ready.
C39_TokenImpliesCapabilities ==
  [](sid # 0 => apiInfo) /\ [][C39_ReadyBeforeAuthenticated]_vars

\* C39 witness: a second session is stored while the disconnect() that cleared
\* the first is still held by its caller and no initialize() call is held.
C39_Witness ==
  /\ sid = 2 /\ apiInfo
  /\ \A c \in Callers : cs[c].op # "initialize"
  /\ \E c \in Callers : cs[c].op = "disconnect" /\ cs[c].pc = "resolved"

====
